---- MODULE Spec2Model ----
(***************************************************************************)
(* google-chat-mcp: the request-mediation layer of the server.             *)
(*                                                                         *)
(*   services/api-client.ts  initializeApiClient, getAccessToken,          *)
(*                           makeApiRequest, handleApiError                *)
(*   index.ts                runStdio, runHTTP                             *)
(*   tools/*.ts              the tool handlers (try / makeApiRequest /     *)
(*                           catch -> handleApiError)                      *)
(*   services/formatters.ts  the TEXT-mode renderers, truncateResponse,    *)
(*                           formatTimestamp, the JSON branch of the list  *)
(*                           renderers                                     *)
(*   schemas/index.ts        the inputs the handlers accept                *)
(*                                                                         *)
(* JavaScript values are modelled as follows.  An optional value (a        *)
(* missing environment variable, an absent field, undefined or null) is a  *)
(* sequence of length 0 or 1: <<>> is absent, <<v>> is present.  A text    *)
(* built by a template literal or by + is the sequence of its pieces, so   *)
(* that the parts a caller relies on can be looked up in it.               *)
(* The renderers' texts are strings, since they are cut by length.         *)
(***************************************************************************)
EXTENDS Integers, Sequences, FiniteSets, TLC

VARIABLES
    env,          \* process.env: [path, json, token], each optional
    entry,        \* how the module is entered: "stdio", "http" or "module"
    proc,         \* "boot", "serving" or "exited"
    exitCode,     \* process exit status, -1 while the process runs
    stderr,       \* what startup printed with console.error, as a set of pieces
    apiClient,    \* module variable apiClient (NullApi = null)
    authClient,   \* module variable authClient (NullAuth = null)
    nInit,        \* runs of initializeApiClient so far
    nAuth,        \* auth clients constructed so far
    nApi,         \* axios instances created so far
    initError,    \* error thrown by the latest run of initializeApiClient
    calls,        \* the tool invocations: call id -> call record
    acqLog,       \* the completed getAccessToken calls, in order
    sent,         \* the HTTP requests put on the wire
    tpIn,         \* token provider exercised alone: its inputs
    tpOut,        \* ... and its outcome
    errIn,        \* error classifier exercised alone: the thrown value
    errOut,       \* ... and the text returned
    toolIn,       \* renderers and handler returns exercised alone: the input
    toolOut       \* ... and what was returned

vars == <<env, entry, proc, exitCode, stderr, apiClient, authClient, nInit,
          nAuth, nApi, initError, calls, acqLog, sent, tpIn, tpOut, errIn, errOut,
          toolIn, toolOut>>

procVars == <<env, entry, proc, exitCode, stderr, apiClient, authClient, nInit,
              nAuth, nApi, initError, calls, acqLog, sent>>

----------------------------------------------------------------------------
(* Bounds of the model *)

\* number of tool invocations the host issues
MaxCalls == 2

----------------------------------------------------------------------------
(* JavaScript helpers *)

None == <<>>

Some(v) == <<v>>

Range(s) == {s[i] : i \in DOMAIN s}

\* truthiness of an optional string: undefined, null and "" are falsy
Truthy(o) == o # None /\ o[1] # ""

\* a || b on optional strings
OrElse(a, b) == IF Truthy(a) THEN a ELSE b

----------------------------------------------------------------------------
(* Thrown values.  kind "AxiosError" / "Error" is what instanceof sees;    *)
(* kind "Value" is a thrown non-Error, whose value is a tagged pair.       *)
(* message is a text (a sequence of pieces).                               *)
(* response is optional: [status, data]; data is optional:                 *)
(* [error |-> optional [message |-> optional string],                      *)
(*  message |-> optional string].                                          *)

NoValue == <<"undefined", "">>

MkError(kind, response, code, message) ==
    [kind |-> kind, response |-> response, code |-> code,
     message |-> message, value |-> NoValue]

MkThrown(value) ==
    [kind |-> "Value", response |-> None, code |-> None,
     message |-> <<>>, value |-> value]

PlainError(message) == MkError("Error", None, None, message)

\* a value that stands for "no error"
NoError == MkError("none", None, None, <<>>)

\* String(v) of a thrown non-Error value
JsString(v) ==
    CASE v[1] = "string"    -> v[2]
      [] v[1] = "number"    -> ToString(v[2])
      [] v[1] = "null"      -> "null"
      [] v[1] = "undefined" -> "undefined"
      [] OTHER              -> "[object Object]"

----------------------------------------------------------------------------
(* handleApiError *)

\* data?.error?.message
NestedMessage(data) ==
    IF data = None THEN None
    ELSE IF data[1].error = None THEN None
    ELSE data[1].error[1].message

\* data?.message
TopMessage(data) == IF data = None THEN None ELSE data[1].message

\* mutant: the top-level message is preferred to the nested one
UpstreamMessage_TopFirst(data) ==
    OrElse(OrElse(TopMessage(data), NestedMessage(data)), Some("Unknown error"))[1]

\* data?.error?.message || data?.message || "Unknown error"
UpstreamMessage(data) ==
    OrElse(OrElse(NestedMessage(data), TopMessage(data)), Some("Unknown error"))[1]

\* mutant: the 409 case is missing from the switch
StatusText_409AsGeneric(status, message) ==
    CASE status = 400 -> <<"Error: Bad request - ", message, ". Check your parameters and try again.">>
      [] status = 401 -> <<"Error: Authentication failed. Please check your credentials and ensure they have the required permissions.">>
      [] status = 403 -> <<"Error: Permission denied - ", message, ". Ensure the app has the required Chat API scopes.">>
      [] status = 404 -> <<"Error: Resource not found - ", message, ". Check that the space/message/member ID is correct.">>
      [] status = 429 -> <<"Error: Rate limit exceeded. Please wait before making more requests.">>
      [] status = 500 -> <<"Error: Google Chat API server error. Please try again later.">>
      [] status = 503 -> <<"Error: Google Chat API is temporarily unavailable. Please try again later.">>
      [] OTHER        -> <<"Error: API request failed (", ToString(status), ") - ", message>>

\* the switch on error.response.status
StatusText(status, message) ==
    CASE status = 400 -> <<"Error: Bad request - ", message, ". Check your parameters and try again.">>
      [] status = 401 -> <<"Error: Authentication failed. Please check your credentials and ensure they have the required permissions.">>
      [] status = 403 -> <<"Error: Permission denied - ", message, ". Ensure the app has the required Chat API scopes.">>
      [] status = 404 -> <<"Error: Resource not found - ", message, ". Check that the space/message/member ID is correct.">>
      [] status = 409 -> <<"Error: Conflict - ", message, ". The resource may already exist or be in an invalid state.">>
      [] status = 429 -> <<"Error: Rate limit exceeded. Please wait before making more requests.">>
      [] status = 500 -> <<"Error: Google Chat API server error. Please try again later.">>
      [] status = 503 -> <<"Error: Google Chat API is temporarily unavailable. Please try again later.">>
      [] OTHER        -> <<"Error: API request failed (", ToString(status), ") - ", message>>

\* the fall-through return: error.message of an Error, String(error) otherwise
UnexpectedText(error) ==
    <<"Error: Unexpected error - ">> \o
      (IF error.kind \in {"AxiosError", "Error"} THEN error.message
       ELSE <<JsString(error.value)>>)

\* mutant: the ECONNABORTED branch is missing
TransportText_NoTimeoutCase(error) ==
    IF error.code = Some("ENOTFOUND") \/ error.code = Some("ECONNREFUSED")
    THEN <<"Error: Unable to connect to Google Chat API. Check your network connection.">>
    ELSE UnexpectedText(error)

\* an AxiosError without a response: the else-if chain on error.code
TransportText(error) ==
    IF error.code = Some("ECONNABORTED")
    THEN <<"Error: Request timed out. Please try again.">>
    ELSE IF error.code = Some("ENOTFOUND") \/ error.code = Some("ECONNREFUSED")
    THEN <<"Error: Unable to connect to Google Chat API. Check your network connection.">>
    ELSE UnexpectedText(error)

handleApiError(error) ==
    IF error.kind = "AxiosError"
    THEN IF error.response # None
         THEN StatusText(error.response[1].status,
                         UpstreamMessage(error.response[1].data))
         ELSE TransportText(error)
    ELSE UnexpectedText(error)

----------------------------------------------------------------------------
(* initializeApiClient: credential resolution *)

\* the environment values the model draws from
ValidJson == "{\"type\":\"service_account\"}"

BadJson == "{not json"

PathValues == {None, Some(""), Some("/keys/service-account.json")}

JsonValues == {None, Some(""), Some(ValidJson), Some(BadJson)}

TokenValues == {None, Some(""), Some("ya29.configured")}

\* whether JSON.parse(text) returns
JsonParses(text) == text = ValidJson

\* JSON.parse(text), for a text that parses
JsonParse(text) == [type |-> "service_account"]

NullAuth ==
    [kind |-> "null", id |-> 0, credentials |-> None, access_token |-> None]

\* new GoogleAuth({scopes, credentials?})
GoogleAuth(id, credentials) ==
    [kind |-> "GoogleAuth", id |-> id, credentials |-> credentials,
     access_token |-> None]

\* new OAuth2Client() followed by setCredentials({access_token})
OAuth2Client(id, token) ==
    [kind |-> "OAuth2Client", id |-> id, credentials |-> None,
     access_token |-> token]

InvalidJsonError ==
    PlainError(<<"Invalid ", "GOOGLE_SERVICE_ACCOUNT_JSON", ": must be valid JSON">>)

MissingAuthError ==
    PlainError(<<"Authentication required. Set one of:\n  - ",
                 "GOOGLE_APPLICATION_CREDENTIALS",
                 ": Path to service account JSON file\n  - ",
                 "GOOGLE_SERVICE_ACCOUNT_JSON",
                 ": Service account JSON as a string\n  - ",
                 "GOOGLE_OAUTH_TOKEN",
                 ": OAuth2 access token">>)

Resolved(auth) == [threw |-> FALSE, error |-> NoError, auth |-> auth]

Rejected(error) == [threw |-> TRUE, error |-> error, auth |-> NullAuth]

\* mutant: the path source shadows the inline payload
ResolveAuth_PathFirst(e, id) ==
    IF Truthy(e.path) THEN Resolved(GoogleAuth(id, None))
    ELSE IF Truthy(e.json)
    THEN IF JsonParses(e.json[1])
         THEN Resolved(GoogleAuth(id, Some(JsonParse(e.json[1]))))
         ELSE Rejected(InvalidJsonError)
    ELSE IF Truthy(e.token) THEN Resolved(OAuth2Client(id, e.token))
    ELSE Rejected(MissingAuthError)

\* mutant: with no source set, fall back to the library's default credentials
ResolveAuth_DefaultCredentials(e, id) ==
    IF Truthy(e.path) \/ Truthy(e.json)
    THEN IF Truthy(e.json)
         THEN IF JsonParses(e.json[1])
              THEN Resolved(GoogleAuth(id, Some(JsonParse(e.json[1]))))
              ELSE Rejected(InvalidJsonError)
         ELSE Resolved(GoogleAuth(id, None))
    ELSE IF Truthy(e.token) THEN Resolved(OAuth2Client(id, e.token))
    ELSE Resolved(GoogleAuth(id, None))

\* mutant: a payload that does not parse is dropped silently
ResolveAuth_IgnoreBadJson(e, id) ==
    IF Truthy(e.path) \/ Truthy(e.json)
    THEN IF Truthy(e.json) /\ JsonParses(e.json[1])
         THEN Resolved(GoogleAuth(id, Some(JsonParse(e.json[1]))))
         ELSE Resolved(GoogleAuth(id, None))
    ELSE IF Truthy(e.token) THEN Resolved(OAuth2Client(id, e.token))
    ELSE Rejected(MissingAuthError)

\* the if / else-if / else of initializeApiClient: the auth client it
\* constructs, or the error it throws
ResolveAuth(e, id) ==
    IF Truthy(e.path) \/ Truthy(e.json)
    THEN IF Truthy(e.json)
         THEN IF JsonParses(e.json[1])
              THEN Resolved(GoogleAuth(id, Some(JsonParse(e.json[1]))))
              ELSE Rejected(InvalidJsonError)
         ELSE Resolved(GoogleAuth(id, None))
    ELSE IF Truthy(e.token) THEN Resolved(OAuth2Client(id, e.token))
    ELSE Rejected(MissingAuthError)

NullApi == [id |-> 0, timeout |-> 0, interceptors |-> 0]

\* mutant: the instance is kept in a local, the module variable stays null
AxiosCreate_NotInstalled(id) == NullApi

\* axios.create({baseURL, timeout: 30000, headers}) with the request
\* interceptor registered on it
AxiosCreate(id) == [id |-> id, timeout |-> 30000, interceptors |-> 1]

\* initializeApiClient(): no await inside, so the body runs to its end (or to
\* its throw) within the caller's turn
\* mutant: the HTTP client is created first, before the strategy is resolved
initializeApiClient_ClientFirst ==
    LET r == ResolveAuth(env, nAuth + 1) IN
    /\ nInit' = nInit + 1
    /\ apiClient' = AxiosCreate(nApi + 1)
    /\ nApi' = nApi + 1
    /\ IF r.threw
       THEN /\ initError' = Some(r.error)
            /\ UNCHANGED <<authClient, nAuth>>
       ELSE /\ initError' = None
            /\ authClient' = r.auth
            /\ nAuth' = nAuth + 1

initializeApiClient ==
    LET r == ResolveAuth(env, nAuth + 1) IN
    /\ nInit' = nInit + 1
    /\ IF r.threw
       THEN /\ initError' = Some(r.error)
            /\ UNCHANGED <<authClient, apiClient, nAuth, nApi>>
       ELSE /\ initError' = None
            /\ authClient' = r.auth
            /\ nAuth' = nAuth + 1
            /\ apiClient' = AxiosCreate(nApi + 1)
            /\ nApi' = nApi + 1

----------------------------------------------------------------------------
(* getAccessToken *)

\* what `await authClient.getClient()` can do
GetClientOk == [threw |-> FALSE, error |-> NoError]

GetClientOutcomes ==
    {GetClientOk,
     [threw |-> TRUE,
      error |-> PlainError(<<"The file at ", "/keys/service-account.json",
                             " does not exist, or it is not a file.">>)]}

\* what `await client.getAccessToken()` can do: a token response, or a throw
\* of the identity library's own error type (not an AxiosError)
ExchangeOk(token) == [threw |-> FALSE, error |-> NoError, token |-> token]

ExchangeThrew(error) == [threw |-> TRUE, error |-> error, token |-> None]

\* the token endpoint does not answer: the identity library's own transport
\* gives up with its own error type; the 30000 ms of the axios instance do
\* not apply to it
TokenEndpointSilent ==
    MkError("Error", None, Some("ETIMEDOUT"),
            <<"request to https://oauth2.googleapis.com/token failed, reason: ",
              "connect ETIMEDOUT">>)

ExchangeOutcomes ==
    {ExchangeOk(Some("ya29.exchanged")),
     ExchangeOk(None),
     ExchangeOk(Some("")),
     ExchangeThrew(MkError("Error",
                           Some([status |-> 400,
                                 data |-> Some([error |-> None,
                                                message |-> Some("invalid_grant")])]),
                           None, <<"invalid_grant: Invalid JWT Signature.">>)),
     ExchangeThrew(MkError("Error", None, Some("ECONNREFUSED"),
                           <<"request to https://oauth2.googleapis.com/token failed">>)),
     ExchangeThrew(TokenEndpointSilent)}

TokenReturned(token) == [threw |-> FALSE, error |-> NoError, token |-> token]

TokenThrew(error) == [threw |-> TRUE, error |-> error, token |-> None]

\* mutant: the token is returned without looking at it
getAccessToken_Unchecked(auth, gc, ex) ==
    IF auth.kind = "null"
    THEN TokenThrew(PlainError(<<"API client not initialized. Call initializeApiClient() first.">>))
    ELSE IF auth.kind = "OAuth2Client"
    THEN TokenReturned(auth.access_token)
    ELSE IF gc.threw THEN TokenThrew(gc.error)
    ELSE IF ex.threw THEN TokenThrew(ex.error)
    ELSE TokenReturned(ex.token)

\* getAccessToken(), given the module's auth client and what its two awaits
\* (getClient, then the exchange) come back with
getAccessToken(auth, gc, ex) ==
    IF auth.kind = "null"
    THEN TokenThrew(PlainError(<<"API client not initialized. Call initializeApiClient() first.">>))
    ELSE IF auth.kind = "OAuth2Client"
    THEN IF Truthy(auth.access_token)
         THEN TokenReturned(auth.access_token)
         ELSE TokenThrew(PlainError(<<"OAuth2 token expired or invalid">>))
    ELSE IF gc.threw THEN TokenThrew(gc.error)
    ELSE IF ex.threw THEN TokenThrew(ex.error)
    ELSE IF ~Truthy(ex.token)
    THEN TokenThrew(PlainError(<<"Failed to obtain access token">>))
    ELSE TokenReturned(ex.token)

----------------------------------------------------------------------------
(* The tool invocations *)

CallIds == 1..MaxCalls

NoResult == [isError |-> FALSE, text |-> <<>>, structured |-> FALSE]

IdleCall ==
    [pc |-> "idle", client |-> 0, acq |-> 0, token |-> None, nSent |-> 0,
     caught |-> NoError, result |-> NoResult]

\* what the upstream service, or the transport, answers to a request
HttpOk == [ok |-> TRUE, error |-> NoError, renders |-> TRUE]

\* a 2xx body the renderer cannot walk (a null element in the page): the
\* renderer throws a TypeError inside the handler's try block
RenderError ==
    MkError("Error", None, None,
            <<"Cannot read properties of null (reading 'displayName')">>)

HttpOkUnrenderable == [ok |-> TRUE, error |-> NoError, renders |-> FALSE]

HttpFailed(error) == [ok |-> FALSE, error |-> error, renders |-> FALSE]

HttpError(status, data) ==
    HttpFailed(MkError("AxiosError", Some([status |-> status, data |-> data]),
                       Some("ERR_BAD_REQUEST"),
                       <<"Request failed with status code ", ToString(status)>>))

ResponseOutcomes ==
    {HttpOk,
     HttpOkUnrenderable,
     HttpError(401, None),
     HttpError(404, Some([error |-> Some([message |-> Some("Space not found")]),
                          message |-> None])),
     HttpError(503, None),
     HttpFailed(MkError("AxiosError", None, Some("ECONNABORTED"),
                        <<"timeout of 30000ms exceeded">>)),
     HttpFailed(MkError("AxiosError", None, Some("ECONNREFUSED"),
                        <<"connect ECONNREFUSED">>))}

\* the TypeError of calling null: apiClient!(...) with apiClient still null
NotAFunctionError == MkError("Error", None, None, <<"apiClient is not a function">>)

\* mutant: a failed attempt is tried once more before it is reported
Failed_RetryOnce(call, error) ==
    IF error.kind = "AxiosError" /\ call.nSent = 1
    THEN [call EXCEPT !.pc = "interceptor", !.token = None, !.acq = 0]
    ELSE [call EXCEPT !.pc = "done",
                      !.caught = error,
                      !.result = [isError |-> TRUE, text |-> handleApiError(error),
                                  structured |-> FALSE]]

\* mutant: a failure after the request was answered keeps the structured data
Failed_KeepsStructured(call, error) ==
    [call EXCEPT !.pc = "done",
                 !.caught = error,
                 !.result = [isError |-> TRUE, text |-> handleApiError(error),
                             structured |-> call.nSent > 0]]

\* the handler's catch block: whatever makeApiRequest or the renderer threw
\* becomes the returned failure result
Failed(call, error) ==
    [call EXCEPT !.pc = "done",
                 !.caught = error,
                 !.result = [isError |-> TRUE, text |-> handleApiError(error),
                             structured |-> FALSE]]

\* the handler's success path: text from the renderer plus the structured echo
Succeeded(call) ==
    [call EXCEPT !.pc = "done",
                 !.result = [isError |-> FALSE, text |-> <<"<rendered>">>,
                             structured |-> TRUE]]

\* mutant: every call initializes again
NeedsInit_Always(client) == TRUE

\* makeApiRequest: if (!apiClient)
NeedsInit(client) == client = NullApi

\* config.headers.Authorization = `Bearer ${token}`
AuthorizationHeader(token) ==
    <<"Bearer ", IF token = None THEN "undefined" ELSE token[1]>>

----------------------------------------------------------------------------
(* index.ts: startup *)

pureVars == <<tpIn, tpOut, errIn, errOut, toolIn, toolOut>>

FailedToInitialize(error) ==
    <<"Failed to initialize Google Chat API client:">> \o error.message

RemediationLines ==
    <<"", "Please configure authentication by setting one of:",
      "  - ", "GOOGLE_APPLICATION_CREDENTIALS", ": Path to service account JSON file",
      "  - ", "GOOGLE_SERVICE_ACCOUNT_JSON", ": Service account JSON as a string",
      "  - ", "GOOGLE_OAUTH_TOKEN", ": OAuth2 access token">>

\* runStdio(): initialize, then connect the server to the stdio transport
RunStdio ==
    /\ entry = "stdio"
    /\ proc = "boot"
    /\ initializeApiClient
    /\ IF initError' # None
       THEN /\ stderr' = FailedToInitialize(initError'[1]) \o RemediationLines
            /\ exitCode' = 1
            /\ proc' = "exited"
       ELSE /\ proc' = "serving"
            /\ UNCHANGED <<stderr, exitCode>>
    /\ UNCHANGED <<env, entry, calls, acqLog, sent, pureVars>>

\* runHTTP(): initialize, then listen
RunHTTP ==
    /\ entry = "http"
    /\ proc = "boot"
    /\ initializeApiClient
    /\ IF initError' # None
       THEN /\ stderr' = FailedToInitialize(initError'[1])
            /\ exitCode' = 1
            /\ proc' = "exited"
       ELSE /\ proc' = "serving"
            /\ UNCHANGED <<stderr, exitCode>>
    /\ UNCHANGED <<env, entry, calls, acqLog, sent, pureVars>>

----------------------------------------------------------------------------
(* A tool handler: try { await makeApiRequest(...) } catch { handleApiError } *)
(* Each action is one turn of the event loop: the code between two awaits.   *)

initVars == <<apiClient, authClient, nInit, nAuth, nApi, initError>>

\* the handler is invoked and runs makeApiRequest up to its first await
StartCall(c) ==
    /\ proc = "serving"
    /\ calls[c].pc = "idle"
    /\ \A d \in CallIds : d < c => calls[d].pc # "idle"
    /\ IF NeedsInit(apiClient)
       THEN /\ initializeApiClient
            /\ calls' = [calls EXCEPT ![c] =
                  IF initError' # None
                  THEN Failed(calls[c], initError'[1])
                  ELSE [calls[c] EXCEPT !.pc = "awaitInit"]]
       ELSE /\ UNCHANGED initVars
            /\ calls' = [calls EXCEPT ![c] =
                  [calls[c] EXCEPT !.pc = "interceptor", !.client = apiClient.id]]
    /\ UNCHANGED <<env, entry, proc, exitCode, stderr, acqLog, sent, pureVars>>

\* makeApiRequest resumes after `await initializeApiClient()` and calls
\* apiClient!(...)
ResumeAfterInit(c) ==
    /\ calls[c].pc = "awaitInit"
    /\ calls' = [calls EXCEPT ![c] =
          IF apiClient = NullApi
          THEN Failed(calls[c], NotAFunctionError)
          ELSE [calls[c] EXCEPT !.pc = "interceptor", !.client = apiClient.id]]
    /\ UNCHANGED <<env, entry, proc, exitCode, stderr, initVars, acqLog, sent, pureVars>>

\* mutant: the interceptor keeps the first token it got and attaches that one
TokenAcquired_Memoized(c, token) ==
    /\ acqLog' = Append(acqLog, [call |-> c, token |-> token,
                                 nSentBefore |-> calls[c].nSent])
    /\ calls' = [calls EXCEPT ![c] =
          [calls[c] EXCEPT !.pc = "haveToken",
                           !.token = acqLog'[1].token, !.acq = 1]]

\* getAccessToken returned `token` to the interceptor of call c
TokenAcquired(c, token) ==
    /\ acqLog' = Append(acqLog, [call |-> c, token |-> token,
                                 nSentBefore |-> calls[c].nSent])
    /\ calls' = [calls EXCEPT ![c] =
          [calls[c] EXCEPT !.pc = "haveToken",
                           !.token = token, !.acq = Len(acqLog) + 1]]

\* mutant: a token failure is shared by every call that is under way
TokenFailed_FailsAllPending(c, error) ==
    /\ calls' = [d \in CallIds |->
          IF calls[d].pc \notin {"idle", "done"}
          THEN Failed(calls[d], error) ELSE calls[d]]
    /\ UNCHANGED acqLog

\* mutant: a token failure is reported as the upstream's 401
TokenFailed_AsUnauthorized(c, error) ==
    /\ calls' = [calls EXCEPT ![c] = Failed(calls[c], HttpError(401, None).error)]
    /\ UNCHANGED acqLog

\* getAccessToken threw inside the interceptor of call c
TokenFailed(c, error) ==
    /\ calls' = [calls EXCEPT ![c] = Failed(calls[c], error)]
    /\ UNCHANGED acqLog

\* the request interceptor starts: getAccessToken() up to its first await
RunInterceptor(c) ==
    /\ calls[c].pc = "interceptor"
    /\ IF authClient.kind = "GoogleAuth"
       THEN /\ calls' = [calls EXCEPT ![c].pc = "getClient"]
            /\ UNCHANGED acqLog
       ELSE LET t == getAccessToken(authClient, GetClientOk, ExchangeOk(None)) IN
            IF t.threw THEN TokenFailed(c, t.error) ELSE TokenAcquired(c, t.token)
    /\ UNCHANGED <<env, entry, proc, exitCode, stderr, initVars, sent, pureVars>>

\* `await authClient.getClient()` settles
GetClientDone(c) ==
    /\ calls[c].pc = "getClient"
    /\ \E gc \in GetClientOutcomes :
          IF gc.threw
          THEN TokenFailed(c, getAccessToken(authClient, gc, ExchangeOk(None)).error)
          ELSE /\ calls' = [calls EXCEPT ![c].pc = "exchange"]
               /\ UNCHANGED acqLog
    /\ UNCHANGED <<env, entry, proc, exitCode, stderr, initVars, sent, pureVars>>

\* `await client.getAccessToken()` settles
ExchangeDone(c) ==
    /\ calls[c].pc = "exchange"
    /\ \E ex \in ExchangeOutcomes :
          LET t == getAccessToken(authClient, GetClientOk, ex) IN
          IF t.threw THEN TokenFailed(c, t.error) ELSE TokenAcquired(c, t.token)
    /\ UNCHANGED <<env, entry, proc, exitCode, stderr, initVars, sent, pureVars>>

\* the interceptor sets the header and axios puts the request on the wire
Send(c) ==
    /\ calls[c].pc = "haveToken"
    /\ sent' = sent \cup {[call |-> c, n |-> calls[c].nSent + 1,
                           client |-> calls[c].client,
                           authorization |-> AuthorizationHeader(calls[c].token),
                           acq |-> calls[c].acq]}
    /\ calls' = [calls EXCEPT ![c] =
          [calls[c] EXCEPT !.pc = "inflight", !.nSent = calls[c].nSent + 1]]
    /\ UNCHANGED <<env, entry, proc, exitCode, stderr, initVars, acqLog, pureVars>>

\* the request settles: a 2xx body, an error status, or a transport failure;
\* on a 2xx body the handler renders it, still inside its try block
Respond(c) ==
    /\ calls[c].pc = "inflight"
    /\ \E o \in ResponseOutcomes :
          calls' = [calls EXCEPT ![c] =
             IF ~o.ok THEN Failed(calls[c], o.error)
             ELSE IF ~o.renders THEN Failed(calls[c], RenderError)
             ELSE Succeeded(calls[c])]
    /\ UNCHANGED <<env, entry, proc, exitCode, stderr, initVars, acqLog, sent, pureVars>>

----------------------------------------------------------------------------
(* The server process *)

Environments == [path : PathValues, json : JsonValues, token : TokenValues]

NoEnvironment == [path |-> None, json |-> None, token |-> None]

\* entry "stdio" / "http": index.ts runs and initializes before it serves.
\* entry "module": api-client.ts is used through its exports alone, so the
\* first makeApiRequest finds the client uninitialized.
Init ==
    /\ env \in Environments
    /\ entry \in {"stdio", "http", "module"}
    /\ proc = IF entry = "module" THEN "serving" ELSE "boot"
    /\ exitCode = -1
    /\ stderr = <<>>
    /\ apiClient = NullApi
    /\ authClient = NullAuth
    /\ nInit = 0
    /\ nAuth = 0
    /\ nApi = 0
    /\ initError = None
    /\ calls = [c \in CallIds |-> IdleCall]
    /\ acqLog = <<>>
    /\ sent = {}
    /\ tpIn = None
    /\ tpOut = None
    /\ errIn = None
    /\ errOut = None
    /\ toolIn = None
    /\ toolOut = None

Next ==
    \/ RunStdio
    \/ RunHTTP
    \/ \E c \in CallIds : StartCall(c)
    \/ \E c \in CallIds : ResumeAfterInit(c)
    \/ \E c \in CallIds : RunInterceptor(c)
    \/ \E c \in CallIds : GetClientDone(c)
    \/ \E c \in CallIds : ExchangeDone(c)
    \/ \E c \in CallIds : Send(c)
    \/ \E c \in CallIds : Respond(c)

Spec == Init /\ [][Next]_vars

----------------------------------------------------------------------------
(* getAccessToken and handleApiError exercised on their own, over every     *)
(* input of a bounded domain                                                *)

ProcessNotStarted ==
    /\ env = NoEnvironment
    /\ entry = "module"
    /\ proc = "boot"
    /\ exitCode = -1
    /\ stderr = <<>>
    /\ apiClient = NullApi
    /\ authClient = NullAuth
    /\ nInit = 0
    /\ nAuth = 0
    /\ nApi = 0
    /\ initError = None
    /\ calls = [c \in CallIds |-> IdleCall]
    /\ acqLog = <<>>
    /\ sent = {}

\* the auth clients getAccessToken can meet: none, an OAuth2Client whose
\* credentials hold a token, an empty one or none, a GoogleAuth
AuthClients ==
    {NullAuth,
     OAuth2Client(1, Some("ya29.configured")),
     OAuth2Client(1, Some("ya29.other")),
     OAuth2Client(1, Some("")),
     OAuth2Client(1, None),
     GoogleAuth(1, None),
     GoogleAuth(1, Some(JsonParse(ValidJson)))}

TokenInputs == [auth : AuthClients, gc : GetClientOutcomes, ex : ExchangeOutcomes]

InitToken ==
    /\ ProcessNotStarted
    /\ tpIn \in {Some(i) : i \in TokenInputs}
    /\ tpOut = None
    /\ errIn = None
    /\ errOut = None
    /\ toolIn = None
    /\ toolOut = None

ApplyGetAccessToken ==
    /\ tpIn # None
    /\ tpOut = None
    /\ tpOut' = Some(getAccessToken(tpIn[1].auth, tpIn[1].gc, tpIn[1].ex))
    /\ UNCHANGED <<procVars, tpIn, errIn, errOut, toolIn, toolOut>>

NextToken == ApplyGetAccessToken

SpecToken == InitToken /\ [][NextToken]_vars

\* response bodies: none, or an object with any combination of a nested
\* error.message and a top-level message, each absent, empty or a text
MessageValues(text) == {None, Some(""), Some(text)}

ResponseBodies ==
    {None} \cup
    {Some([error |-> e, message |-> m]) :
        e \in {None} \cup {Some([message |-> x]) : x \in MessageValues("nested upstream message")},
        m \in MessageValues("top-level upstream message")}

Statuses == {302, 400, 401, 402, 403, 404, 409, 418, 429, 500, 502, 503}

ErrorCodes ==
    {None, Some("ECONNABORTED"), Some("ENOTFOUND"), Some("ECONNREFUSED"),
     Some("ERR_NETWORK"), Some("ETIMEDOUT")}

ThrownValues ==
    {<<"string", "boom">>, <<"number", 42>>, <<"null", "">>, <<"undefined", "">>,
     <<"object", "">>}

ErrorInputs ==
    {MkError("AxiosError", Some([status |-> st, data |-> d]), Some("ERR_BAD_RESPONSE"),
             <<"Request failed with status code ", ToString(st)>>) :
        st \in Statuses, d \in ResponseBodies}
    \cup {MkError("AxiosError", Some([status |-> st, data |-> None]), code,
                  <<"Request failed with status code ", ToString(st)>>) :
             st \in {404, 503}, code \in ErrorCodes}
    \cup {MkError("AxiosError", None, code, <<"transport failure">>) : code \in ErrorCodes}
    \cup {MkError("Error", None, code, <<"plain failure">>) : code \in ErrorCodes}
    \cup {MkError("Error", Some([status |-> st, data |-> None]), None,
                  <<"library failure">>) : st \in {400, 401}}
    \cup {MkThrown(v) : v \in ThrownValues}

InitClassify ==
    /\ ProcessNotStarted
    /\ tpIn = None
    /\ tpOut = None
    /\ errIn \in {Some(e) : e \in ErrorInputs}
    /\ errOut = None
    /\ toolIn = None
    /\ toolOut = None

ApplyHandleApiError ==
    /\ errIn # None
    /\ errOut = None
    /\ errOut' = Some(handleApiError(errIn[1]))
    /\ UNCHANGED <<procVars, tpIn, tpOut, errIn, toolIn, toolOut>>

NextClassify == ApplyHandleApiError

SpecClassify == InitClassify /\ [][NextClassify]_vars

----------------------------------------------------------------------------
(* Claims about credential resolution (Spec) *)

\* a source is present when its environment variable holds a non-empty value
Present(source) == Truthy(source)

InlineUnparsable == Present(env.json) /\ ~JsonParses(env.json[1])

OptionNames ==
    {"GOOGLE_APPLICATION_CREDENTIALS", "GOOGLE_SERVICE_ACCOUNT_JSON",
     "GOOGLE_OAUTH_TOKEN"}

\* the strategy the installed auth client stands for
UsesPathCredentials ==
    authClient.kind = "GoogleAuth" /\ authClient.credentials = None

UsesInlineCredentials ==
    /\ authClient.kind = "GoogleAuth"
    /\ Present(env.json)
    /\ authClient.credentials = Some(JsonParse(env.json[1]))

UsesBearerToken ==
    authClient.kind = "OAuth2Client" /\ authClient.access_token = env.token

\* C1, as stated: once initializeApiClient has run (with an inline payload
\* that parses, if there is one), the strategy is that of the first present
\* source in the order path, inline JSON, bearer token; with a path present
\* the inline payload is not used.
C1_PathThenInlineThenToken ==
    (nInit > 0 /\ ~InlineUnparsable) =>
        IF Present(env.path) THEN UsesPathCredentials
        ELSE IF Present(env.json) THEN UsesInlineCredentials
        ELSE IF Present(env.token) THEN UsesBearerToken
        ELSE authClient = NullAuth

\* C1, amended: once initializeApiClient has run (with an inline payload that
\* parses, if there is one), the service-account strategy is selected when the
\* path or the inline JSON is present and the bearer token only when both are
\* absent; the parsed inline payload is the credentials whenever inline JSON
\* is present, also next to a path, and the path decides only when inline
\* JSON is absent.
C1_InlineThenPathThenToken ==
    (nInit > 0 /\ ~InlineUnparsable) =>
        IF Present(env.json) THEN UsesInlineCredentials
        ELSE IF Present(env.path) THEN UsesPathCredentials
        ELSE IF Present(env.token) THEN UsesBearerToken
        ELSE authClient = NullAuth

\* initializeApiClient has run with path and inline JSON both present
C1_Witness ==
    /\ nInit > 0
    /\ Present(env.path)
    /\ Present(env.json)
    /\ Present(env.token)
    /\ authClient.kind = "GoogleAuth"

\* C2: when initializeApiClient has run with all three sources absent, it
\* threw an error whose message names the three options, and the auth client
\* and the HTTP client are still not installed.
C2_MissingCredentialsFail ==
    (nInit > 0 /\ ~Present(env.path) /\ ~Present(env.json) /\ ~Present(env.token)) =>
        /\ initError # None
        /\ OptionNames \subseteq Range(initError[1].message)
        /\ authClient = NullAuth
        /\ apiClient = NullApi

\* initializeApiClient has run and thrown with no source set at all
C2_Witness ==
    /\ nInit > 0
    /\ env = NoEnvironment
    /\ initError # None

\* C3: when initializeApiClient has run with an inline payload that is
\* present and does not parse, it threw the invalid-payload error, whose
\* message is not that of the missing-credential error, whatever the other
\* two sources hold, and neither client is installed.
C3_InvalidInlinePayloadFails ==
    (nInit > 0 /\ InlineUnparsable) =>
        /\ initError = Some(InvalidJsonError)
        /\ initError[1].message # MissingAuthError.message
        /\ authClient = NullAuth
        /\ apiClient = NullApi

\* initializeApiClient has thrown on an unparsable payload although a path
\* and a bearer token were both present
C3_Witness ==
    /\ nInit > 0
    /\ InlineUnparsable
    /\ Present(env.path)
    /\ Present(env.token)
    /\ initError # None

----------------------------------------------------------------------------
(* Claims about the lazy initialization gate (Spec) *)

Initialized == apiClient # NullApi

\* C4: initialization succeeds at most once (one auth client, one HTTP
\* client; under index.ts initializeApiClient itself runs at most once), and
\* once the client is installed no step runs initializeApiClient again or
\* changes the auth client or the HTTP client.
C4_InitializedAtMostOnce ==
    /\ [](nAuth <= 1 /\ nApi <= 1 /\ (entry # "module" => nInit <= 1))
    /\ [][Initialized =>
            /\ nInit' = nInit
            /\ authClient' = authClient
            /\ apiClient' = apiClient]_vars

\* every tool call has completed on a client that startup initialized
C4_Witness ==
    /\ entry = "stdio"
    /\ Initialized
    /\ nInit = 1
    /\ \A c \in CallIds : calls[c].pc = "done" /\ calls[c].nSent = 1

Started(c) == calls[c].pc # "idle"

\* C5: whatever the interleaving of the calls' turns, at most one auth client
\* and one HTTP client (with one request interceptor) are created, every call
\* that got hold of a client and every request sent uses the installed one,
\* and when calls have started on a resolvable configuration exactly one
\* initialization has run.
C5_OneInitializationUnderConcurrency ==
    /\ nAuth <= 1
    /\ nApi <= 1
    /\ apiClient.interceptors <= 1
    /\ \A c \in CallIds : calls[c].client # 0 => calls[c].client = apiClient.id
    /\ \A r \in sent : r.client # 0 /\ r.client = apiClient.id
    /\ ((\E c \in CallIds : Started(c)) /\ initError = None) =>
          (nInit = 1 /\ nAuth = 1 /\ nApi = 1 /\ Initialized)

\* a second call has started while the first, which found the client
\* uninitialized, is still suspended at `await initializeApiClient()`
C5_Witness ==
    /\ entry = "module"
    /\ \E c, d \in CallIds :
          /\ c # d
          /\ calls[c].pc = "awaitInit"
          /\ calls[d].pc = "interceptor"
          /\ calls[d].client = apiClient.id

----------------------------------------------------------------------------
(* Claims about the dispatch path (Spec) *)

\* C7: every request sent carries the header "Bearer <token>" with a
\* non-empty token that one getAccessToken call returned to that very call,
\* after the call began and with no request of it sent yet in that attempt;
\* no two requests carry the token of the same getAccessToken call.
C7_FreshTokenOnEveryRequest ==
    /\ \A r \in sent :
          /\ Len(r.authorization) = 2
          /\ r.authorization[1] = "Bearer "
          /\ r.authorization[2] \notin {"", "undefined"}
          /\ r.acq \in DOMAIN acqLog
          /\ acqLog[r.acq].call = r.call
          /\ acqLog[r.acq].token = Some(r.authorization[2])
          /\ acqLog[r.acq].nSentBefore = r.n - 1
          /\ Started(r.call)
    /\ \A r1, r2 \in sent : r1 # r2 => r1.acq # r2.acq

\* two calls have each sent their request
C7_Witness ==
    \E r1, r2 \in sent : r1.call # r2.call

\* C8: a tool invocation sends at most one request, and once its request has
\* been sent the invocation is either waiting for the answer or finished: a
\* failed attempt ends it with the failure result.
C8_NoRetries ==
    \A c \in CallIds :
        /\ calls[c].nSent <= 1
        /\ Cardinality({r \in sent : r.call = c}) <= 1
        /\ calls[c].nSent = 1 => calls[c].pc \in {"inflight", "done"}
        /\ calls[c].pc = "done" => calls[c].result # NoResult

\* an invocation has finished with the failure of its single request
C8_Witness ==
    \E c \in CallIds :
        /\ calls[c].pc = "done"
        /\ calls[c].nSent = 1
        /\ calls[c].result.isError
        /\ calls[c].result.text =
              <<"Error: Google Chat API is temporarily unavailable. Please try again later.">>

----------------------------------------------------------------------------
(* Claims about the token provider (SpecToken) *)

\* C6: getAccessToken returns only a present, non-empty token; with an
\* OAuth2Client it returns the configured access token as it is and throws
\* when none (or an empty one) is set; with a GoogleAuth it throws when the
\* exchange yields no token; with no auth client it throws.
C6_NeverReturnsAnEmptyToken ==
    tpOut # None =>
        LET in == tpIn[1]
            out == tpOut[1]
        IN  /\ ~out.threw => Truthy(out.token)
            /\ in.auth.kind = "OAuth2Client" =>
                  IF Truthy(in.auth.access_token)
                  THEN ~out.threw /\ out.token = in.auth.access_token
                  ELSE out.threw
            /\ (in.auth.kind = "GoogleAuth" /\ ~Truthy(in.ex.token)) => out.threw
            /\ in.auth.kind = "null" => out.threw

\* getAccessToken has thrown for an OAuth2Client with no token set
C6_Witness ==
    /\ tpOut # None
    /\ tpIn[1].auth.kind = "OAuth2Client"
    /\ tpIn[1].auth.access_token = None
    /\ tpOut[1].threw

----------------------------------------------------------------------------
(* Claims about the error classifier (SpecClassify) *)

\* the decision table of the design, by status code: the text that opens the
\* message of each class
ClassOpening(status) ==
    CASE status = 400 -> "Error: Bad request - "
      [] status = 401 -> "Error: Authentication failed. Please check your credentials and ensure they have the required permissions."
      [] status = 403 -> "Error: Permission denied - "
      [] status = 404 -> "Error: Resource not found - "
      [] status = 409 -> "Error: Conflict - "
      [] status = 429 -> "Error: Rate limit exceeded. Please wait before making more requests."
      [] status = 500 -> "Error: Google Chat API server error. Please try again later."
      [] status = 503 -> "Error: Google Chat API is temporarily unavailable. Please try again later."
      [] OTHER        -> "Error: API request failed ("

WithUpstreamMessage == {400, 403, 404, 409}

WithoutUpstreamMessage == {401, 429, 500, 503}

HasHttpResponse(error) == error.kind = "AxiosError" /\ error.response # None

\* C9: for an error carrying an HTTP response the text opens with the class
\* of its status code, whatever the body and the error code; the upstream
\* message follows the opening for 400, 403, 404 and 409, follows the status
\* code for any other status outside the table, and for 401, 429, 500 and 503
\* the text is the fixed sentence alone.
C9_ClassifiedByStatusAlone ==
    (errOut # None /\ HasHttpResponse(errIn[1])) =>
        LET status == errIn[1].response[1].status
            message == UpstreamMessage(errIn[1].response[1].data)
            text == errOut[1]
        IN  /\ text[1] = ClassOpening(status)
            /\ status \in WithUpstreamMessage => (Len(text) = 3 /\ text[2] = message)
            /\ status \in WithoutUpstreamMessage => Len(text) = 1
            /\ status \notin (WithUpstreamMessage \cup WithoutUpstreamMessage) =>
                  /\ Len(text) = 4
                  /\ text[2] = ToString(status)
                  /\ text[3] = ") - "
                  /\ text[4] = message

\* a 409 carrying a nested upstream message has been classified
C9_Witness ==
    /\ errOut # None
    /\ HasHttpResponse(errIn[1])
    /\ errIn[1].response[1].status = 409
    /\ NestedMessage(errIn[1].response[1].data) = Some("nested upstream message")
    /\ errOut[1][2] = "nested upstream message"

TimeoutText == <<"Error: Request timed out. Please try again.">>

NetworkText ==
    <<"Error: Unable to connect to Google Chat API. Check your network connection.">>

\* C10: handleApiError returns a text for every input; for an AxiosError
\* without a response it is the timeout text on ECONNABORTED, the
\* network-failure text on ECONNREFUSED and ENOTFOUND, and for any other
\* code, for an Error that is not an AxiosError and for a thrown non-Error it
\* is the unexpected-error text followed by the error's message, or by the
\* string form of the thrown value.
C10_TotalWithTransportClasses ==
    errOut # None =>
        LET error == errIn[1]
            text == errOut[1]
        IN  /\ Len(text) >= 1
            /\ (error.kind = "AxiosError" /\ error.response = None) =>
                  IF error.code = Some("ECONNABORTED") THEN text = TimeoutText
                  ELSE IF error.code \in {Some("ECONNREFUSED"), Some("ENOTFOUND")}
                  THEN text = NetworkText
                  ELSE text = <<"Error: Unexpected error - ">> \o error.message
            /\ error.kind = "Error" =>
                  text = <<"Error: Unexpected error - ">> \o error.message
            /\ error.kind = "Value" =>
                  text = <<"Error: Unexpected error - ", JsString(error.value)>>

\* a connection timeout has been classified
C10_Witness ==
    /\ errOut # None
    /\ errIn[1].kind = "AxiosError"
    /\ errIn[1].response = None
    /\ errIn[1].code = Some("ECONNABORTED")
    /\ errOut[1] = TimeoutText

\* the upstream message that a classified HTTP failure carries in its text
EmbeddedMessage ==
    IF errIn[1].response[1].status \in WithUpstreamMessage THEN errOut[1][2]
    ELSE errOut[1][4]

EmbedsMessage ==
    /\ errOut # None
    /\ HasHttpResponse(errIn[1])
    /\ errIn[1].response[1].status \notin WithoutUpstreamMessage

\* C11 as stated: the upstream message is the nested error.message field
\* whenever the body has that field, otherwise the top-level message field
\* whenever the body has it, otherwise "Unknown error".
C11_NestedWheneverPresent ==
    EmbedsMessage =>
        LET data == errIn[1].response[1].data
        IN  EmbeddedMessage =
                IF NestedMessage(data) # None THEN NestedMessage(data)[1]
                ELSE IF TopMessage(data) # None THEN TopMessage(data)[1]
                ELSE "Unknown error"

\* C11: the upstream message is the nested error.message field when the body
\* has it and it is not the empty string, otherwise the top-level message
\* field when the body has it and it is not the empty string, otherwise
\* "Unknown error"; for an absent body, a body with neither field and a body
\* with both.
C11_NestedWhenNonEmpty ==
    EmbedsMessage =>
        LET data == errIn[1].response[1].data
        IN  EmbeddedMessage =
                IF Truthy(NestedMessage(data)) THEN NestedMessage(data)[1]
                ELSE IF Truthy(TopMessage(data)) THEN TopMessage(data)[1]
                ELSE "Unknown error"

\* a body carrying both messages has been classified with the nested one
C11_Witness ==
    /\ EmbedsMessage
    /\ NestedMessage(errIn[1].response[1].data) = Some("nested upstream message")
    /\ TopMessage(errIn[1].response[1].data) = Some("top-level upstream message")
    /\ EmbeddedMessage = "nested upstream message"

\* the caught error says that the other side did not answer in time
DidNotAnswer(error) == error.code \in {Some("ECONNABORTED"), Some("ETIMEDOUT")}

\* C12: a tool invocation that ended because the upstream did not answer in
\* time, in whichever phase of the call (token acquisition included), has
\* failed with the timeout text of handleApiError as its result.
C12_UnansweredCallFailsAsTimeout ==
    \A c \in CallIds :
        (calls[c].pc = "done" /\ DidNotAnswer(calls[c].caught)) =>
            /\ calls[c].result.isError
            /\ calls[c].result.text = TimeoutText

\* C13: a tool invocation whose dispatch or rendering failed has returned a
\* result flagged isError whose text is exactly what handleApiError makes of
\* the caught error, with no structured content; a result that is not flagged
\* comes from no failure.
C13_FailureIsClassifiedTextOnly ==
    \A c \in CallIds :
        calls[c].pc = "done" =>
            IF calls[c].caught # NoError
            THEN /\ calls[c].result.isError
                 /\ calls[c].result.text = handleApiError(calls[c].caught)
                 /\ ~calls[c].result.structured
            ELSE /\ ~calls[c].result.isError
                 /\ calls[c].result.structured

\* one call failed in its rendering step, after the upstream had answered,
\* and another failed in its dispatch
C13_Witness ==
    \E c, d \in CallIds :
        /\ calls[c].pc = "done"
        /\ calls[c].caught = RenderError
        /\ calls[c].nSent = 1
        /\ calls[c].result.isError
        /\ calls[d].pc = "done"
        /\ calls[d].caught.kind = "AxiosError"
        /\ calls[d].result.isError

\* the turns of the handler of call c after it was invoked
Continue(c) ==
    \/ ResumeAfterInit(c)
    \/ RunInterceptor(c)
    \/ GetClientDone(c)
    \/ ExchangeDone(c)
    \/ Send(c)
    \/ Respond(c)

Pending(c) == calls[c].pc \notin {"idle", "done"}

\* C14: once the client is installed, every step of any tool call leaves the
\* HTTP client, the auth client and the initialization counters as they are,
\* changes the record of one call only and never the result of a call that
\* has returned; and a call that is under way can always take its next turn,
\* whatever the other calls have done.
C14_CallsShareNoWrittenState ==
    /\ [](\A c \in CallIds : (Initialized /\ Pending(c)) => ENABLED Continue(c))
    /\ [][Initialized =>
            /\ <<apiClient, authClient, nAuth, nApi>>' = <<apiClient, authClient, nAuth, nApi>>
            /\ \A c, d \in CallIds :
                  (c # d /\ calls'[c] # calls[c]) => calls'[d] = calls[d]
            /\ \A c \in CallIds :
                  calls[c].pc = "done" => calls'[c] = calls[c]]_vars

\* a call has failed while an earlier one is still in flight
C14_Witness ==
    /\ Initialized
    /\ MaxCalls >= 2
    /\ calls[1].pc = "inflight"
    /\ calls[2].pc = "done"
    /\ calls[2].result.isError

----------------------------------------------------------------------------
(* formatters.ts, in TEXT mode (response_format = "markdown").  Here a     *)
(* text is a string, character for character, because the renderers cut    *)
(* by length.  A string of this language cannot hold a backquote: the      *)
(* apostrophe stands for each backquote of the source.                     *)

\* constants.ts
CHARACTER_LIMIT == 25000

RECURSIVE Rep(_, _)
\* s.repeat(n)
Rep(s, n) ==
    IF n <= 0 THEN ""
    ELSE IF n = 1 THEN s
    ELSE LET h == Rep(s, n \div 2) IN h \o h \o (IF n % 2 = 1 THEN s ELSE "")

\* text.substring(0, n)
Substring(text, n) == IF Len(text) <= n THEN text ELSE SubSeq(text, 1, n)

\* text.endsWith(suffix)
EndsWith(text, suffix) ==
    /\ Len(suffix) <= Len(text)
    /\ SubSeq(text, Len(text) - Len(suffix) + 1, Len(text)) = suffix

\* text.includes(part)
Includes(text, part) ==
    \E i \in 1..(Len(text) - Len(part) + 1) : SubSeq(text, i, i + Len(part) - 1) = part

RECURSIVE Join(_, _)
\* lines.join(sep)
Join(lines, sep) ==
    IF lines = <<>> THEN ""
    ELSE IF Len(lines) = 1 THEN lines[1]
    ELSE LET m == Len(lines) \div 2
         IN  Join(SubSeq(lines, 1, m), sep) \o sep
                 \o Join(SubSeq(lines, m + 1, Len(lines)), sep)

RECURSIVE Flatten(_)
\* the lines pushed by a loop: the lines of each turn, one turn after another
Flatten(ss) ==
    IF ss = <<>> THEN <<>>
    ELSE IF Len(ss) = 1 THEN ss[1]
    ELSE LET m == Len(ss) \div 2
         IN  Flatten(SubSeq(ss, 1, m)) \o Flatten(SubSeq(ss, m + 1, Len(ss)))

\* ${v} of an optional string
Interpolated(o) == IF o = None THEN "undefined" ELSE o[1]

\* lines.push(line) under if (cond)
PushIf(cond, line) == IF cond THEN <<line>> ELSE <<>>

TruncationNotice ==
    "\n\n---\n*Response truncated due to size limit. Use pagination to see more results.*"

\* mutant: the cut keeps CHARACTER_LIMIT characters
truncateResponse_CutAtLimit(text) ==
    IF Len(text) <= CHARACTER_LIMIT THEN text
    ELSE Substring(text, CHARACTER_LIMIT) \o TruncationNotice

truncateResponse(text) ==
    IF Len(text) <= CHARACTER_LIMIT THEN text
    ELSE Substring(text, CHARACTER_LIMIT - 100) \o TruncationNotice

\* new Date(timestamp).toLocaleString("en-US", {year: "numeric", month:
\* "short", day: "numeric", hour: "2-digit", minute: "2-digit"}) with the
\* process in UTC: the rendering of the time value, and "Invalid Date" when
\* the string does not parse (the time value is NaN); neither call throws
LocaleString(timestamp) ==
    CASE timestamp = "2024-01-15T10:30:00Z" -> "Jan 15, 2024, 10:30 AM"
      [] timestamp = "2023-12-31T23:59:59Z" -> "Dec 31, 2023, 11:59 PM"
      [] OTHER -> "Invalid Date"

\* the try block returns; the catch block is never entered
formatTimestamp(timestamp) == LocaleString(timestamp)

\* if (hasMore && nextPageToken) { push("---"); push(the continuation line) }
ContinuationLine(nextPageToken) ==
    "*More results available. Use pageToken: '" \o nextPageToken[1] \o "'*"

Footer(hasMore, nextPageToken) ==
    IF hasMore /\ Truthy(nextPageToken)
    THEN <<"---", ContinuationLine(nextPageToken)>>
    ELSE <<>>

\* mutant: the clip keeps 100 characters of a text of 100 and adds the marker
Clipped_From100(text) == Substring(text, 100) \o (IF Len(text) >= 100 THEN "..." ELSE "")

\* text.substring(0, 100) + (text.length > 100 ? "..." : "")
Clipped(text) == Substring(text, 100) \o (IF Len(text) > 100 THEN "..." ELSE "")

YesNo(b) == IF b THEN "Yes" ELSE "No"

(* A Space: name is a string; displayName, spaceType, type, description     *)
(* (spaceDetails?.description), createTime are optional strings;            *)
(* membershipCount is the optional joinedDirectHumanUserCount || 0;         *)
(* threaded and externalUserAllowed are optional booleans.                  *)

SpaceTitle(space) == "## " \o OrElse(space.displayName, Some("Unnamed Space"))[1]

SpaceTypeLine(space) ==
    "- **Type**: " \o OrElse(OrElse(space.spaceType, space.type), Some("Unknown"))[1]

formatSpace(space) ==
    Join(<<SpaceTitle(space), "- **Name**: " \o space.name, SpaceTypeLine(space)>>
         \o PushIf(Truthy(space.description),
                   "- **Description**: " \o Interpolated(space.description))
         \o PushIf(space.membershipCount # None,
                   "- **Members**: " \o ToString(space.membershipCount[1]))
         \o PushIf(Truthy(space.createTime),
                   "- **Created**: " \o formatTimestamp(Interpolated(space.createTime)))
         \o PushIf(space.threaded # None,
                   "- **Threaded**: " \o YesNo(space.threaded[1]))
         \o PushIf(space.externalUserAllowed # None,
                   "- **External Users Allowed**: " \o YesNo(space.externalUserAllowed[1])),
         "\n")

\* the lines one turn of the loop of formatSpacesList pushes
SpaceEntry(space) ==
    <<SpaceTitle(space), "- **ID**: '" \o space.name \o "'", SpaceTypeLine(space)>>
    \o PushIf(Truthy(space.description),
              "- **Description**: " \o Clipped(Interpolated(space.description)))
    \o <<"">>

\* lines.join("\n") of formatSpacesList
SpacesListText(spaces, hasMore, nextPageToken) ==
    Join(<<"# Spaces (" \o ToString(Len(spaces)) \o " results)", "">>
         \o Flatten([i \in 1..Len(spaces) |-> SpaceEntry(spaces[i])])
         \o Footer(hasMore, nextPageToken),
         "\n")

formatSpacesList(spaces, hasMore, nextPageToken) ==
    IF Len(spaces) = 0 THEN "No spaces found."
    ELSE truncateResponse(SpacesListText(spaces, hasMore, nextPageToken))

(* A Message: name is a string; sender is optional [displayName, name],     *)
(* both optional strings; createTime, text and threadName (thread?.name)    *)
(* are optional strings; reactions (emojiReactionSummaries) is a sequence   *)
(* of [unicode |-> optional string, reactionCount |-> number].              *)

SenderField(message, field) ==
    IF message.sender = None THEN None
    ELSE IF field = "displayName" THEN message.sender[1].displayName
    ELSE message.sender[1].name

ReactionSummary(r) ==
    OrElse(r.unicode, Some("?"))[1] \o " (" \o ToString(r.reactionCount) \o ")"

formatMessage(message) ==
    Join(<<"## Message", "- **ID**: '" \o message.name \o "'">>
         \o PushIf(message.sender # None,
                   "- **From**: " \o Interpolated(OrElse(SenderField(message, "displayName"),
                                                         SenderField(message, "name"))))
         \o PushIf(Truthy(message.createTime),
                   "- **Time**: " \o formatTimestamp(Interpolated(message.createTime)))
         \o (IF Truthy(message.text)
             THEN <<"", "### Content", message.text[1]>> ELSE <<>>)
         \o (IF Truthy(message.threadName)
             THEN <<"", "- **Thread**: '" \o message.threadName[1] \o "'">> ELSE <<>>)
         \o PushIf(Len(message.reactions) > 0,
                   "- **Reactions**: "
                       \o Join([i \in 1..Len(message.reactions) |->
                                   ReactionSummary(message.reactions[i])], " ")),
         "\n")

\* the lines one turn of the loop of formatMessagesList pushes
MessageEntry(message) ==
    LET sender == OrElse(OrElse(SenderField(message, "displayName"),
                                SenderField(message, "name")), Some("Unknown"))[1]
        time == IF Truthy(message.createTime)
                THEN formatTimestamp(message.createTime[1]) ELSE ""
        preview == IF Truthy(message.text)
                   THEN Clipped(message.text[1]) ELSE "[No text content]"
    IN  <<"### " \o sender \o " - " \o time,
          "- **ID**: '" \o message.name \o "'",
          "- **Content**: " \o preview,
          "">>

\* lines.join("\n") of formatMessagesList
MessagesListText(messages, hasMore, nextPageToken) ==
    Join(<<"# Messages (" \o ToString(Len(messages)) \o " results)", "">>
         \o Flatten([i \in 1..Len(messages) |-> MessageEntry(messages[i])])
         \o Footer(hasMore, nextPageToken),
         "\n")

formatMessagesList(messages, hasMore, nextPageToken) ==
    IF Len(messages) = 0 THEN "No messages found."
    ELSE truncateResponse(MessagesListText(messages, hasMore, nextPageToken))

(* A membership: name is a string; displayName and userName               *)
(* (member?.displayName, member?.name), role and state are optional        *)
(* strings.                                                                *)

\* the lines one turn of the loop of formatMembersList pushes
MemberEntry(member) ==
    <<"## " \o OrElse(OrElse(member.displayName, member.userName), Some("Unknown"))[1],
      "- **ID**: '" \o member.name \o "'",
      "- **Role**: " \o OrElse(member.role, Some("Unknown"))[1],
      "- **State**: " \o OrElse(member.state, Some("Unknown"))[1],
      "">>

\* lines.join("\n") of formatMembersList
MembersListText(members, hasMore, nextPageToken) ==
    Join(<<"# Members (" \o ToString(Len(members)) \o " results)", "">>
         \o Flatten([i \in 1..Len(members) |-> MemberEntry(members[i])])
         \o Footer(hasMore, nextPageToken),
         "\n")

formatMembersList(members, hasMore, nextPageToken) ==
    IF Len(members) = 0 THEN "No members found."
    ELSE truncateResponse(MembersListText(members, hasMore, nextPageToken))

(* A Reaction: name is a string; unicode and customUid (emoji?.unicode,    *)
(* emoji?.customEmoji?.uid), displayName and userName (user?.displayName,  *)
(* user?.name) are optional strings.                                       *)

ReactionEmoji(reaction) ==
    OrElse(OrElse(reaction.unicode, reaction.customUid), Some("?"))[1]

ReactionUser(reaction) ==
    OrElse(OrElse(reaction.displayName, reaction.userName), Some("Unknown"))[1]

\* mutant: the groups come in the order of their last reaction
InsertionOrder_LastSet(keys) ==
    LET last == SelectSeq([i \in 1..Len(keys) |-> i],
                          LAMBDA i : \A j \in (i + 1)..Len(keys) : keys[j] # keys[i])
    IN  [n \in 1..Len(last) |-> keys[last[n]]]

\* the keys of the Map, in the order in which they were first set
InsertionOrder(keys) ==
    LET first == SelectSeq([i \in 1..Len(keys) |-> i],
                           LAMBDA i : \A j \in 1..(i - 1) : keys[j] # keys[i])
    IN  [n \in 1..Len(first) |-> keys[first[n]]]

\* one line per group: the emoji, the number of its users, their names
GroupLine(reactions, emoji) ==
    LET of == SelectSeq(reactions, LAMBDA r : ReactionEmoji(r) = emoji)
        users == [i \in 1..Len(of) |-> ReactionUser(of[i])]
    IN  "- " \o emoji \o " (" \o ToString(Len(users)) \o "): " \o Join(users, ", ")

\* formatReactionsList pushes "" before its continuation line, and returns
\* lines.join("\n") as it is
formatReactionsList(reactions, hasMore, nextPageToken) ==
    IF Len(reactions) = 0 THEN "No reactions found."
    ELSE LET emojis == InsertionOrder([i \in 1..Len(reactions) |->
                                          ReactionEmoji(reactions[i])])
         IN  Join(<<"# Reactions (" \o ToString(Len(reactions)) \o " results)", "">>
                  \o [i \in 1..Len(emojis) |-> GroupLine(reactions, emojis[i])]
                  \o (IF hasMore /\ Truthy(nextPageToken)
                      THEN <<"", ContinuationLine(nextPageToken)>> ELSE <<>>),
                  "\n")

(* An Attachment: name is a string; contentName, contentType, downloadUri  *)
(* and source are optional strings; attachmentDataRef is optional          *)
(* [resourceName, attachmentUploadToken].                                  *)

formatAttachment(attachment) ==
    Join(<<"## Attachment", "- **Name**: '" \o attachment.name \o "'">>
         \o PushIf(Truthy(attachment.contentName),
                   "- **Filename**: " \o Interpolated(attachment.contentName))
         \o PushIf(Truthy(attachment.contentType),
                   "- **Type**: " \o Interpolated(attachment.contentType))
         \o PushIf(Truthy(attachment.downloadUri),
                   "- **Download URL**: " \o Interpolated(attachment.downloadUri))
         \o PushIf(Truthy(attachment.source),
                   "- **Source**: " \o Interpolated(attachment.source)),
         "\n")

----------------------------------------------------------------------------
(* tools/*.ts: what a handler returns when makeApiRequest has resolved     *)
(* with `response`, in TEXT mode                                           *)

ToolResult(text, structuredContent) ==
    [isError |-> FALSE, text |-> text, structuredContent |-> structuredContent]

\* mutant: only the first element of the page is kept
OrEmpty_FirstOnly(items) ==
    IF items = None THEN <<>> ELSE SubSeq(items[1], 1, IF Len(items[1]) > 0 THEN 1 ELSE 0)

\* response.spaces || [] (an array, even an empty one, is truthy)
OrEmpty(items) == IF items = None THEN <<>> ELSE items[1]

\* !!response.nextPageToken
HasMore(response) == Truthy(response.nextPageToken)

google_chat_list_spaces(response) ==
    LET spaces == OrEmpty(response.spaces) IN
    ToolResult(formatSpacesList(spaces, HasMore(response), response.nextPageToken),
               [count |-> Len(spaces), spaces |-> spaces,
                hasMore |-> HasMore(response),
                nextPageToken |-> response.nextPageToken])

google_chat_get_space(space) == ToolResult(formatSpace(space), space)

google_chat_list_messages(response) ==
    LET messages == OrEmpty(response.messages) IN
    ToolResult(formatMessagesList(messages, HasMore(response), response.nextPageToken),
               [count |-> Len(messages), messages |-> messages,
                hasMore |-> HasMore(response),
                nextPageToken |-> response.nextPageToken])

google_chat_get_message(message) == ToolResult(formatMessage(message), message)

google_chat_create_message(message) ==
    ToolResult("Message sent successfully!\n\n" \o formatMessage(message), message)

google_chat_list_members(response) ==
    LET members == OrEmpty(response.memberships) IN
    ToolResult(formatMembersList(members, HasMore(response), response.nextPageToken),
               [count |-> Len(members), memberships |-> members,
                hasMore |-> HasMore(response),
                nextPageToken |-> response.nextPageToken])

google_chat_list_reactions(response) ==
    LET reactions == OrEmpty(response.reactions) IN
    ToolResult(formatReactionsList(reactions, HasMore(response), response.nextPageToken),
               [count |-> Len(reactions), reactions |-> reactions,
                hasMore |-> HasMore(response),
                nextPageToken |-> response.nextPageToken])

google_chat_get_attachment(attachment) ==
    ToolResult(formatAttachment(attachment), attachment)

\* the Attachment the upload handler assembles from its parameters and the
\* attachmentDataRef of the response
UploadedAttachment(params, response) ==
    [name |-> IF response.attachmentDataRef = None THEN ""
              ELSE OrElse(response.attachmentDataRef[1].resourceName, Some(""))[1],
     contentName |-> Some(params.filename),
     contentType |-> Some(params.contentType),
     downloadUri |-> None,
     source |-> None,
     attachmentDataRef |-> response.attachmentDataRef]

google_chat_upload_attachment(params, response) ==
    ToolResult("Attachment uploaded successfully!\n\n"
                   \o formatAttachment(UploadedAttachment(params, response)),
               UploadedAttachment(params, response))

----------------------------------------------------------------------------
(* The renderers and handler returns exercised on their own, over the      *)
(* upstream responses of a bounded domain                                  *)

\* number of elements of a full page
BigPageSize == 100

Timestamps ==
    {"2024-01-15T10:30:00Z", "2023-12-31T23:59:59Z", "not-a-date", "yesterday at noon"}

Parsable(timestamp) == timestamp \in {"2024-01-15T10:30:00Z", "2023-12-31T23:59:59Z"}

CreateTimes == {None} \cup {Some(t) : t \in Timestamps}

\* free texts around the clip length, and one beyond the character limit
FreeTexts ==
    {None, Some(""), Some("Weekly sync notes"), Some(Rep("d", 99)), Some(Rep("d", 100)),
     Some(Rep("d", 101)), Some(Rep("d", 150))}

OversizeText == Some(Rep("0123456789", 2500) \o "!")

PageTokens == {None, Some(""), Some("TOK123")}

BasicSpace ==
    [name |-> "spaces/AAAA", displayName |-> Some("Engineering"),
     spaceType |-> Some("SPACE"), type |-> None, description |-> None,
     membershipCount |-> None, createTime |-> None, threaded |-> None,
     externalUserAllowed |-> None]

FullSpace ==
    [name |-> "spaces/BBBB", displayName |-> None, spaceType |-> None,
     type |-> Some("ROOM"), description |-> Some(Rep("d", 150)),
     membershipCount |-> Some(12), createTime |-> Some("2024-01-15T10:30:00Z"),
     threaded |-> Some(TRUE), externalUserAllowed |-> Some(FALSE)]

Spaces ==
    {[BasicSpace EXCEPT !.description = d, !.createTime = t] :
        d \in FreeTexts, t \in CreateTimes}
    \cup {FullSpace, [BasicSpace EXCEPT !.description = OversizeText]}

BasicMessage ==
    [name |-> "spaces/AAAA/messages/M1",
     sender |-> Some([displayName |-> Some("Ada"), name |-> Some("users/1")]),
     createTime |-> Some("2024-01-15T10:30:00Z"), text |-> Some("Weekly sync notes"),
     threadName |-> None, reactions |-> <<>>]

FullMessage ==
    [name |-> "spaces/AAAA/messages/M2",
     sender |-> Some([displayName |-> None, name |-> None]),
     createTime |-> None, text |-> Some(Rep("d", 150)),
     threadName |-> Some("spaces/AAAA/threads/T1"),
     reactions |-> <<[unicode |-> Some("+1"), reactionCount |-> 2],
                     [unicode |-> None, reactionCount |-> 1]>>]

Messages ==
    {[BasicMessage EXCEPT !.text = x, !.createTime = t] :
        x \in FreeTexts, t \in CreateTimes}
    \cup {FullMessage,
          [BasicMessage EXCEPT !.sender = None],
          [BasicMessage EXCEPT !.text = OversizeText]}

BasicMember ==
    [name |-> "spaces/AAAA/members/1", displayName |-> Some("Ada"),
     userName |-> Some("users/1"), role |-> Some("ROLE_MEMBER"), state |-> Some("JOINED")]

Members ==
    {BasicMember,
     [BasicMember EXCEPT !.displayName = None],
     [BasicMember EXCEPT !.displayName = None, !.userName = None, !.role = None,
                         !.state = None]}

Reaction(n, unicode, displayName) ==
    [name |-> "spaces/AAAA/messages/M1/reactions/" \o n, unicode |-> unicode,
     customUid |-> None, displayName |-> displayName, userName |-> Some("users/" \o n)]

\* a page of k copies of one element
PageOf(element, k) == [i \in 1..k |-> element]

\* the one-element page whose text, assembled by `text`, is n characters
\* long: the element's display name is padded to fit
PaddedTo(n, Element(_), ListText(_)) ==
    <<Element(Rep("x", n - (Len(ListText(<<Element("x")>>)) - 1)))>>

NamedSpace(displayName) == [BasicSpace EXCEPT !.displayName = Some(displayName)]

NamedMessage(displayName) ==
    [BasicMessage EXCEPT !.sender = Some([displayName |-> Some(displayName),
                                          name |-> Some("users/1")])]

NamedMember(displayName) == [BasicMember EXCEPT !.displayName = Some(displayName)]

\* the text lengths around the limit
EdgeLengths == {CHARACTER_LIMIT - 1, CHARACTER_LIMIT, CHARACTER_LIMIT + 1}

EdgeTokens == {None, Some("TOK123")}

SpacesPages ==
    {<<>>, <<FullSpace, BasicSpace, [BasicSpace EXCEPT !.displayName = Some("")]>>,
     PageOf([FullSpace EXCEPT !.displayName = Some(Rep("n", 128))], BigPageSize)}
    \cup {<<[BasicSpace EXCEPT !.description = d]>> : d \in FreeTexts}

SpacesResponses ==
    {[spaces |-> None, nextPageToken |-> t] : t \in PageTokens}
    \cup {[spaces |-> Some(p), nextPageToken |-> t] : p \in SpacesPages, t \in PageTokens}
    \cup {[spaces |-> Some(PaddedTo(n, NamedSpace,
                                    LAMBDA p : SpacesListText(p, Truthy(t), t))),
           nextPageToken |-> t] : n \in EdgeLengths, t \in EdgeTokens}

MessagesPages ==
    {<<>>, <<FullMessage, BasicMessage, [BasicMessage EXCEPT !.sender = None]>>,
     PageOf([FullMessage EXCEPT !.sender =
                Some([displayName |-> Some(Rep("n", 128)), name |-> None])],
            BigPageSize)}
    \cup {<<[BasicMessage EXCEPT !.text = x]>> : x \in FreeTexts}

MessagesResponses ==
    {[messages |-> None, nextPageToken |-> t] : t \in PageTokens}
    \cup {[messages |-> Some(p), nextPageToken |-> t] : p \in MessagesPages, t \in PageTokens}
    \cup {[messages |-> Some(PaddedTo(n, NamedMessage,
                                      LAMBDA p : MessagesListText(p, Truthy(t), t))),
           nextPageToken |-> t] : n \in EdgeLengths, t \in EdgeTokens}

MembersPages ==
    {<<>>, <<BasicMember, [BasicMember EXCEPT !.displayName = None]>>,
     PageOf([BasicMember EXCEPT !.displayName = Some(Rep("n", 256))], BigPageSize)}
    \cup {<<m>> : m \in Members}

MembersResponses ==
    {[memberships |-> None, nextPageToken |-> t] : t \in PageTokens}
    \cup {[memberships |-> Some(p), nextPageToken |-> t] : p \in MembersPages, t \in PageTokens}
    \cup {[memberships |-> Some(PaddedTo(n, NamedMember,
                                         LAMBDA p : MembersListText(p, Truthy(t), t))),
           nextPageToken |-> t] : n \in EdgeLengths, t \in EdgeTokens}

ReactionsPages ==
    {<<>>,
     <<Reaction("1", Some("+1"), Some("Ada"))>>,
     <<Reaction("1", Some("+1"), Some("Ada")), Reaction("2", Some("tada"), None),
       Reaction("3", Some("+1"), Some("Grace")), Reaction("4", None, Some("Linus"))>>,
     <<Reaction("1", Some("tada"), Some("Ada")), Reaction("2", Some("+1"), Some("Bob")),
       Reaction("3", Some("tada"), Some("Cy")), Reaction("4", Some("tada"), Some("Dee")),
       Reaction("5", Some("+1"), Some("Eve"))>>,
     PageOf(Reaction("1", Some("+1"), Some(Rep("n", 256))), BigPageSize)}

ReactionsResponses ==
    {[reactions |-> None, nextPageToken |-> t] : t \in PageTokens}
    \cup {[reactions |-> Some(p), nextPageToken |-> t] : p \in ReactionsPages, t \in PageTokens}

Attachments ==
    {[name |-> "spaces/AAAA/messages/M1/attachments/A1", contentName |-> Some("report.pdf"),
      contentType |-> Some("application/pdf"), downloadUri |-> Some("https://chat.google.com/d/A1"),
      source |-> Some("UPLOADED_CONTENT"), attachmentDataRef |-> None],
     [name |-> "spaces/AAAA/messages/M1/attachments/A2", contentName |-> None,
      contentType |-> None, downloadUri |-> None, source |-> None,
      attachmentDataRef |-> None]}

UploadParams ==
    {[filename |-> "report.pdf", contentType |-> "application/pdf"],
     [filename |-> "notes.txt", contentType |-> "text/plain"]}

UploadResponses ==
    {[attachmentDataRef |-> None],
     [attachmentDataRef |-> Some([resourceName |-> Some("ref-123"),
                                  attachmentUploadToken |-> Some("upl-456")])],
     [attachmentDataRef |-> Some([resourceName |-> None,
                                  attachmentUploadToken |-> Some("upl-456")])]}

\* params.response_format is MARKDOWN unless the caller asks for JSON
ToolInput(tool, input) ==
    [tool |-> tool, input |-> input, response_format |-> "markdown"]

JsonInput(tool, input) ==
    [tool |-> tool, input |-> input, response_format |-> "json"]

(* The JSON branch of the list renderers: JSON.stringify(value, null, 2).   *)
(* A JSON value is [t, v] with t its type; the members of an object are a   *)
(* sequence of [key, value], value optional: JSON.stringify leaves out the  *)
(* members whose value is undefined.                                        *)

JString(s) == [t |-> "string", v |-> s]

JNumber(n) == [t |-> "number", v |-> n]

JBoolean(b) == [t |-> "boolean", v |-> b]

JArray(items) == [t |-> "array", v |-> items]

JObject(members) == [t |-> "object", v |-> members]

Prop(key, value) == [key |-> key, value |-> value]

OptString(o) == IF o = None THEN None ELSE Some(JString(o[1]))

OptBoolean(o) == IF o = None THEN None ELSE Some(JBoolean(o[1]))

RECURSIVE Escaped(_)
\* the escapes of a JSON string: quote, backslash and newline
Escaped(s) ==
    IF Len(s) = 0 THEN ""
    ELSE IF Len(s) = 1
    THEN (IF s = "\"" THEN "\\\"" ELSE IF s = "\\" THEN "\\\\"
          ELSE IF s = "\n" THEN "\\n" ELSE s)
    ELSE LET m == Len(s) \div 2
         IN  Escaped(SubSeq(s, 1, m)) \o Escaped(SubSeq(s, m + 1, Len(s)))

Quoted(s) == "\"" \o Escaped(s) \o "\""

RECURSIVE Stringify(_, _)
\* JSON.stringify(value, null, 2), for a value nested `depth` levels deep
Stringify(value, depth) ==
    CASE value.t = "string" -> Quoted(value.v)
      [] value.t = "number" -> ToString(value.v)
      [] value.t = "boolean" -> (IF value.v THEN "true" ELSE "false")
      [] value.t = "array" ->
           IF Len(value.v) = 0 THEN "[]"
           ELSE "[\n"
                \o Join([i \in 1..Len(value.v) |->
                            Rep("  ", depth + 1) \o Stringify(value.v[i], depth + 1)], ",\n")
                \o "\n" \o Rep("  ", depth) \o "]"
      [] value.t = "object" ->
           LET defined == SelectSeq(value.v, LAMBDA p : p.value # None) IN
           IF Len(defined) = 0 THEN "{}"
           ELSE "{\n"
                \o Join([i \in 1..Len(defined) |->
                            Rep("  ", depth + 1) \o Quoted(defined[i].key) \o ": "
                            \o Stringify(defined[i].value[1], depth + 1)], ",\n")
                \o "\n" \o Rep("  ", depth) \o "}"

\* the upstream objects behind the model's records (types.ts)
UserJson(name, displayName) ==
    IF name = None /\ displayName = None THEN None
    ELSE Some(JObject(<<Prop("name", OptString(name)),
                        Prop("displayName", OptString(displayName))>>))

SpaceJson(space) ==
    JObject(<<Prop("name", Some(JString(space.name))),
              Prop("type", OptString(space.type)),
              Prop("spaceType", OptString(space.spaceType)),
              Prop("threaded", OptBoolean(space.threaded)),
              Prop("displayName", OptString(space.displayName)),
              Prop("externalUserAllowed", OptBoolean(space.externalUserAllowed)),
              Prop("spaceDetails",
                   IF space.description = None THEN None
                   ELSE Some(JObject(<<Prop("description", OptString(space.description))>>))),
              Prop("createTime", OptString(space.createTime)),
              Prop("membershipCount",
                   IF space.membershipCount = None THEN None
                   ELSE Some(JObject(<<Prop("joinedDirectHumanUserCount",
                                            Some(JNumber(space.membershipCount[1])))>>)))>>)

EmojiJson(unicode, customUid) ==
    IF unicode = None /\ customUid = None THEN None
    ELSE Some(JObject(<<Prop("unicode", OptString(unicode)),
                        Prop("customEmoji",
                             IF customUid = None THEN None
                             ELSE Some(JObject(<<Prop("uid", OptString(customUid))>>)))>>))

MessageJson(message) ==
    JObject(<<Prop("name", Some(JString(message.name))),
              Prop("sender",
                   IF message.sender = None THEN None
                   ELSE Some(JObject(<<Prop("name", OptString(message.sender[1].name)),
                                       Prop("displayName",
                                            OptString(message.sender[1].displayName))>>))),
              Prop("createTime", OptString(message.createTime)),
              Prop("text", OptString(message.text)),
              Prop("thread",
                   IF message.threadName = None THEN None
                   ELSE Some(JObject(<<Prop("name", OptString(message.threadName))>>))),
              Prop("emojiReactionSummaries",
                   IF Len(message.reactions) = 0 THEN None
                   ELSE Some(JArray([i \in 1..Len(message.reactions) |->
                           JObject(<<Prop("emoji", EmojiJson(message.reactions[i].unicode, None)),
                                     Prop("reactionCount",
                                          Some(JNumber(message.reactions[i].reactionCount)))>>)])))>>)

MemberJson(member) ==
    JObject(<<Prop("name", Some(JString(member.name))),
              Prop("state", OptString(member.state)),
              Prop("role", OptString(member.role)),
              Prop("member", UserJson(member.userName, member.displayName))>>)

ReactionJson(reaction) ==
    JObject(<<Prop("name", Some(JString(reaction.name))),
              Prop("user", UserJson(reaction.userName, reaction.displayName)),
              Prop("emoji", EmojiJson(reaction.unicode, reaction.customUid))>>)

\* { count: items.length, <key>: items, hasMore, nextPageToken }
ListJson(key, items, hasMore, nextPageToken) ==
    JObject(<<Prop("count", Some(JNumber(Len(items)))),
              Prop(key, Some(JArray(items))),
              Prop("hasMore", Some(JBoolean(hasMore))),
              Prop("nextPageToken", OptString(nextPageToken))>>)

\* mutant: the JSON text goes through truncateResponse like the TEXT one
formatSpacesList_JSON_Cut(spaces, hasMore, nextPageToken) ==
    truncateResponse(
        Stringify(ListJson("spaces", [i \in 1..Len(spaces) |-> SpaceJson(spaces[i])],
                           hasMore, nextPageToken), 0))

\* formatSpacesList with format === ResponseFormat.JSON
formatSpacesList_JSON(spaces, hasMore, nextPageToken) ==
    Stringify(ListJson("spaces", [i \in 1..Len(spaces) |-> SpaceJson(spaces[i])],
                       hasMore, nextPageToken), 0)

formatMessagesList_JSON(messages, hasMore, nextPageToken) ==
    Stringify(ListJson("messages", [i \in 1..Len(messages) |-> MessageJson(messages[i])],
                       hasMore, nextPageToken), 0)

formatMembersList_JSON(members, hasMore, nextPageToken) ==
    Stringify(ListJson("memberships", [i \in 1..Len(members) |-> MemberJson(members[i])],
                       hasMore, nextPageToken), 0)

formatReactionsList_JSON(reactions, hasMore, nextPageToken) ==
    Stringify(ListJson("reactions", [i \in 1..Len(reactions) |-> ReactionJson(reactions[i])],
                       hasMore, nextPageToken), 0)

\* the list handlers called with response_format = "json": the same
\* structured content, the text from the JSON branch
google_chat_list_spaces_JSON(response) ==
    ToolResult(formatSpacesList_JSON(OrEmpty(response.spaces), HasMore(response),
                                     response.nextPageToken),
               google_chat_list_spaces(response).structuredContent)

google_chat_list_messages_JSON(response) ==
    ToolResult(formatMessagesList_JSON(OrEmpty(response.messages), HasMore(response),
                                       response.nextPageToken),
               google_chat_list_messages(response).structuredContent)

google_chat_list_members_JSON(response) ==
    ToolResult(formatMembersList_JSON(OrEmpty(response.memberships), HasMore(response),
                                      response.nextPageToken),
               google_chat_list_members(response).structuredContent)

google_chat_list_reactions_JSON(response) ==
    ToolResult(formatReactionsList_JSON(OrEmpty(response.reactions), HasMore(response),
                                        response.nextPageToken),
               google_chat_list_reactions(response).structuredContent)

\* a description that needs every escape
EscapedText == Some("He said \"ship it\"\nthen left C:\\tmp")

JsonInputs ==
    {JsonInput("google_chat_list_spaces", [spaces |-> p, nextPageToken |-> t]) :
        p \in {None} \cup {Some(q) : q \in SpacesPages}
              \cup {Some(<<[BasicSpace EXCEPT !.description = EscapedText]>>)},
        t \in PageTokens}
    \cup {JsonInput("google_chat_list_messages", [messages |-> p, nextPageToken |-> t]) :
             p \in {None} \cup {Some(q) : q \in MessagesPages}, t \in PageTokens}
    \cup {JsonInput("google_chat_list_members", [memberships |-> p, nextPageToken |-> t]) :
             p \in {None} \cup {Some(q) : q \in MembersPages}, t \in PageTokens}
    \cup {JsonInput("google_chat_list_reactions", [reactions |-> p, nextPageToken |-> t]) :
             p \in {None} \cup {Some(q) : q \in ReactionsPages}, t \in PageTokens}

ToolInputs ==
    {ToolInput("google_chat_list_spaces", r) : r \in SpacesResponses}
    \cup {ToolInput("google_chat_get_space", e) : e \in Spaces}
    \cup {ToolInput("google_chat_list_messages", r) : r \in MessagesResponses}
    \cup {ToolInput("google_chat_get_message", e) : e \in Messages}
    \cup {ToolInput("google_chat_create_message", e) : e \in Messages}
    \cup {ToolInput("google_chat_list_members", r) : r \in MembersResponses}
    \cup {ToolInput("google_chat_list_reactions", r) : r \in ReactionsResponses}
    \cup {ToolInput("google_chat_get_attachment", e) : e \in Attachments}
    \cup {ToolInput("google_chat_upload_attachment", [params |-> q, response |-> r]) :
             q \in UploadParams, r \in UploadResponses}
    \cup {ToolInput("formatTimestamp", [timestamp |-> t]) : t \in Timestamps}

InitRender ==
    /\ ProcessNotStarted
    /\ tpIn = None
    /\ tpOut = None
    /\ errIn = None
    /\ errOut = None
    /\ toolIn \in {Some(i) : i \in ToolInputs \cup JsonInputs}
    /\ toolOut = None

\* the handler of `tool` returns `result`
Returns(tool, result) ==
    /\ toolIn # None
    /\ toolOut = None
    /\ toolIn[1].tool = tool
    /\ toolIn[1].response_format = "markdown"
    /\ toolOut' = Some(result)
    /\ UNCHANGED <<procVars, tpIn, tpOut, errIn, errOut, toolIn>>

ListSpaces ==
    Returns("google_chat_list_spaces", google_chat_list_spaces(toolIn[1].input))

GetSpace == Returns("google_chat_get_space", google_chat_get_space(toolIn[1].input))

ListMessages ==
    Returns("google_chat_list_messages", google_chat_list_messages(toolIn[1].input))

GetMessage == Returns("google_chat_get_message", google_chat_get_message(toolIn[1].input))

CreateMessage ==
    Returns("google_chat_create_message", google_chat_create_message(toolIn[1].input))

ListMembers ==
    Returns("google_chat_list_members", google_chat_list_members(toolIn[1].input))

ListReactions ==
    Returns("google_chat_list_reactions", google_chat_list_reactions(toolIn[1].input))

GetAttachment ==
    Returns("google_chat_get_attachment", google_chat_get_attachment(toolIn[1].input))

UploadAttachment ==
    Returns("google_chat_upload_attachment",
            google_chat_upload_attachment(toolIn[1].input.params, toolIn[1].input.response))

ApplyFormatTimestamp ==
    Returns("formatTimestamp", [text |-> formatTimestamp(toolIn[1].input.timestamp)])

\* the handler of `tool`, called with response_format = "json", returns `result`
ReturnsJSON(tool, result) ==
    /\ toolIn # None
    /\ toolOut = None
    /\ toolIn[1].tool = tool
    /\ toolIn[1].response_format = "json"
    /\ toolOut' = Some(result)
    /\ UNCHANGED <<procVars, tpIn, tpOut, errIn, errOut, toolIn>>

ListSpacesJSON ==
    ReturnsJSON("google_chat_list_spaces", google_chat_list_spaces_JSON(toolIn[1].input))

ListMessagesJSON ==
    ReturnsJSON("google_chat_list_messages", google_chat_list_messages_JSON(toolIn[1].input))

ListMembersJSON ==
    ReturnsJSON("google_chat_list_members", google_chat_list_members_JSON(toolIn[1].input))

ListReactionsJSON ==
    ReturnsJSON("google_chat_list_reactions", google_chat_list_reactions_JSON(toolIn[1].input))

NextRender ==
    \/ ListSpaces
    \/ GetSpace
    \/ ListMessages
    \/ GetMessage
    \/ CreateMessage
    \/ ListMembers
    \/ ListReactions
    \/ GetAttachment
    \/ UploadAttachment
    \/ ApplyFormatTimestamp
    \/ ListSpacesJSON
    \/ ListMessagesJSON
    \/ ListMembersJSON
    \/ ListReactionsJSON

SpecRender == InitRender /\ [][NextRender]_vars

----------------------------------------------------------------------------
(* Claims about what a successful call returns (SpecRender) *)

Returned(tools) ==
    /\ toolOut # None
    /\ toolIn[1].tool \in tools
    /\ toolIn[1].response_format = "markdown"

ListTools ==
    {"google_chat_list_spaces", "google_chat_list_messages", "google_chat_list_members",
     "google_chat_list_reactions"}

CutListTools ==
    {"google_chat_list_spaces", "google_chat_list_messages", "google_chat_list_members"}

EntityTools ==
    {"google_chat_get_space", "google_chat_get_message", "google_chat_create_message",
     "google_chat_get_attachment"}

\* the page of the upstream response, as the service sent it
UpstreamPage ==
    LET response == toolIn[1].input
        tool == toolIn[1].tool
        page == CASE tool = "google_chat_list_spaces" -> response.spaces
                  [] tool = "google_chat_list_messages" -> response.messages
                  [] tool = "google_chat_list_members" -> response.memberships
                  [] tool = "google_chat_list_reactions" -> response.reactions
    IN  IF page = None THEN <<>> ELSE page[1]

\* the page held by the structured content of the result
EchoedPage ==
    LET structured == toolOut[1].structuredContent
        tool == toolIn[1].tool
    IN  CASE tool = "google_chat_list_spaces" -> structured.spaces
          [] tool = "google_chat_list_messages" -> structured.messages
          [] tool = "google_chat_list_members" -> structured.memberships
          [] tool = "google_chat_list_reactions" -> structured.reactions

EchoesThePage ==
    Returned(ListTools) =>
        /\ EchoedPage = UpstreamPage
        /\ toolOut[1].structuredContent.count = Len(UpstreamPage)

EchoesTheEntity ==
    Returned(EntityTools) => toolOut[1].structuredContent = toolIn[1].input

\* C15 as stated: the structured content of a list tool holds every element
\* of the upstream page, with its count, and that of a single-entity tool,
\* upload-attachment included, is the upstream entity as it came.
C15_StructuredIsUpstreamData ==
    /\ EchoesThePage
    /\ EchoesTheEntity
    /\ Returned({"google_chat_upload_attachment"}) =>
          toolOut[1].structuredContent = toolIn[1].input.response

\* C15: the structured content of a list tool holds every element of the
\* upstream page, with its count, whatever was cut from the text; that of a
\* get or create tool is the upstream entity as it came; that of
\* upload-attachment is an attachment put together by the handler: the
\* upstream attachmentDataRef as it came, the caller's filename and content
\* type, and the reference's resourceName (or "") as name.
C15_StructuredIsUpstreamDataButForUpload ==
    /\ EchoesThePage
    /\ EchoesTheEntity
    /\ Returned({"google_chat_upload_attachment"}) =>
          LET structured == toolOut[1].structuredContent
              params == toolIn[1].input.params
              response == toolIn[1].input.response
          IN  /\ structured.attachmentDataRef = response.attachmentDataRef
              /\ structured.contentName = Some(params.filename)
              /\ structured.contentType = Some(params.contentType)
              /\ structured.name =
                    IF response.attachmentDataRef # None
                       /\ Truthy(response.attachmentDataRef[1].resourceName)
                    THEN response.attachmentDataRef[1].resourceName[1]
                    ELSE ""

\* a full page came back whole in the structured content although its text
\* was cut
C15_Witness ==
    /\ Returned({"google_chat_list_messages"})
    /\ Len(UpstreamPage) = BigPageSize
    /\ toolOut[1].structuredContent.count = BigPageSize
    /\ EndsWith(toolOut[1].text, TruncationNotice)

\* lines.join("\n") of the renderer of a list tool, before any cut
AssembledText ==
    LET response == toolIn[1].input
        tool == toolIn[1].tool
        hasMore == response.nextPageToken \notin {None, Some("")}
    IN  CASE tool = "google_chat_list_spaces" ->
                SpacesListText(UpstreamPage, hasMore, response.nextPageToken)
          [] tool = "google_chat_list_messages" ->
                MessagesListText(UpstreamPage, hasMore, response.nextPageToken)
          [] tool = "google_chat_list_members" ->
                MembersListText(UpstreamPage, hasMore, response.nextPageToken)

\* C16: the space, message and member list renderers return an assembled
\* text of at most 25,000 characters unchanged, and replace a longer one by
\* its first 24,900 characters followed by the truncation notice, which gives
\* a text of at most 25,000 characters that ends with the notice.
C16_CutAt24900WithNotice ==
    (Returned(CutListTools) /\ UpstreamPage # <<>>) =>
        LET text == toolOut[1].text IN
        IF Len(AssembledText) <= 25000
        THEN text = AssembledText
        ELSE /\ text = SubSeq(AssembledText, 1, 24900) \o TruncationNotice
             /\ Len(text) <= 25000
             /\ EndsWith(text, TruncationNotice)

\* a text of 25,001 characters has been cut
C16_Witness ==
    /\ Returned({"google_chat_list_spaces"})
    /\ UpstreamPage # <<>>
    /\ Len(AssembledText) = 25001
    /\ Len(toolOut[1].text) = 24900 + Len(TruncationNotice)
    /\ EndsWith(toolOut[1].text, TruncationNotice)

AllTools ==
    ListTools \cup EntityTools \cup {"google_chat_upload_attachment"}

\* C17: every text a tool returns in TEXT mode is at most 25,000 characters
\* long, the single-entity renderings, the reaction list and the texts that
\* open with a success line included.
C17_EveryTextWithinTheLimit ==
    Returned(AllTools) => Len(toolOut[1].text) <= 25000

\* C18: the text of a list tool holds the continuation line naming the token
\* exactly when the response carries a non-empty nextPageToken, for an empty
\* page and for a page whose text is over the limit as for any other.
C18_FooterIffToken ==
    Returned(ListTools) =>
        LET token == toolIn[1].input.nextPageToken
            text == toolOut[1].text
        IN  IF token \notin {None, Some("")}
            THEN Includes(text, "*More results available. Use pageToken: '"
                                    \o token[1] \o "'*")
            ELSE ~Includes(text, "More results available")

\* C19: formatTimestamp returns a string that does not parse as a date as it
\* got it, and a space or message with such a createTime is rendered with
\* that string.
C19_UnparsableTimestampIsKept ==
    /\ (Returned({"formatTimestamp"}) /\ ~Parsable(toolIn[1].input.timestamp)) =>
          toolOut[1].text = toolIn[1].input.timestamp
    /\ (/\ Returned({"google_chat_get_space", "google_chat_get_message"})
        /\ toolIn[1].input.createTime # None
        /\ ~Parsable(toolIn[1].input.createTime[1])) =>
          Includes(toolOut[1].text, toolIn[1].input.createTime[1])

\* `line` is one of the lines of `text`
HasLine(text, line) ==
    \/ text = line
    \/ (Len(text) > Len(line) /\ SubSeq(text, 1, Len(line) + 1) = line \o "\n")
    \/ EndsWith(text, "\n" \o line)
    \/ Includes(text, "\n" \o line \o "\n")

\* a free text as a list shows it
InList(text) ==
    IF Len(text) > 100 THEN SubSeq(text, 1, 100) \o "..." ELSE text

\* C20: in a list whose text is not cut, the description of a space and the
\* text of a message are shown as their first 100 characters followed by
\* "..." when they are longer than 100 characters and in full, with no
\* marker, when they are not; the detail views of a space and of a message
\* show them in full whatever their length.
C20_ClippedInListsFullInDetail ==
    /\ (/\ Returned({"google_chat_list_spaces"})
        /\ ~EndsWith(toolOut[1].text, TruncationNotice)) =>
          \A i \in 1..Len(UpstreamPage) :
              LET description == UpstreamPage[i].description IN
              description \notin {None, Some("")} =>
                  HasLine(toolOut[1].text, "- **Description**: " \o InList(description[1]))
    /\ (/\ Returned({"google_chat_list_messages"})
        /\ ~EndsWith(toolOut[1].text, TruncationNotice)) =>
          \A i \in 1..Len(UpstreamPage) :
              LET text == UpstreamPage[i].text IN
              text \notin {None, Some("")} =>
                  HasLine(toolOut[1].text, "- **Content**: " \o InList(text[1]))
    /\ (Returned({"google_chat_get_space"})
        /\ toolIn[1].input.description \notin {None, Some("")}) =>
          HasLine(toolOut[1].text, "- **Description**: " \o toolIn[1].input.description[1])
    /\ (Returned({"google_chat_get_message"})
        /\ toolIn[1].input.text \notin {None, Some("")}) =>
          HasLine(toolOut[1].text, toolIn[1].input.text[1])

\* a list shows a description of 150 characters as 100 characters and "..."
C20_Witness ==
    /\ Returned({"google_chat_list_spaces"})
    /\ Len(UpstreamPage) = 3
    /\ UpstreamPage[1].description = Some(Rep("d", 150))
    /\ HasLine(toolOut[1].text, "- **Description**: " \o Rep("d", 100) \o "...")

----------------------------------------------------------------------------
(* tools/*.ts: the requests the handlers hand to makeApiRequest.  A request *)
(* is [method, url, data, params]; data and params are optional (undefined *)
(* when absent), and so is every key that the handler sets under an if.    *)

Request(method, url, data, params) ==
    [method |-> method, url |-> url, data |-> data, params |-> params]

\* a handler at its await of makeApiRequest(...): `sent` are the requests it
\* handed over, `received` the bodies that came back
Dispatched(params, request) ==
    [pc |-> "inflight", params |-> params, sent |-> <<request>>,
     received |-> <<>>, result |-> None]

\* a handler that returned before it called makeApiRequest
ReturnedEarly(params, result) ==
    [pc |-> "done", params |-> params, sent |-> <<>>,
     received |-> <<>>, result |-> Some(result)]

\* the catch block's return value
ErrorResult(text) == [isError |-> TRUE, text |-> text]

\* if (v) target.key = v, for an optional string
IfSet(v) == IF Truthy(v) THEN v ELSE None

\* mutant: the thread object is built from whatever was supplied
MessageThread_IfDefined(params) ==
    IF params.threadKey # None \/ params.threadName # None
    THEN Some([threadKey |-> params.threadKey, name |-> params.threadName])
    ELSE None

\* if (params.threadKey || params.threadName) { messageData.thread = {}; ... }
MessageThread(params) ==
    IF Truthy(params.threadKey) \/ Truthy(params.threadName)
    THEN Some([threadKey |-> IfSet(params.threadKey), name |-> IfSet(params.threadName)])
    ELSE None

\* Object.keys(queryParams).length > 0 ? queryParams : undefined
MessageQuery(params) ==
    IF Truthy(params.messageReplyOption) \/ Truthy(params.messageId)
    THEN Some([messageReplyOption |-> IfSet(params.messageReplyOption),
               messageId |-> IfSet(params.messageId)])
    ELSE None

google_chat_create_message_Request(params) ==
    Request("POST", params.spaceName \o "/messages",
            Some([text |-> params.text, thread |-> MessageThread(params)]),
            MessageQuery(params))

google_chat_update_message_Request(params) ==
    Request("PATCH", params.messageName, Some([text |-> params.text]),
            Some([updateMask |-> "text"]))

google_chat_update_message(message) ==
    ToolResult("Message updated successfully!\n\n" \o formatMessage(message), message)

\* if (b) queryParams.key = b, for a boolean
IfTrue(b) == IF b THEN Some(TRUE) ELSE None

google_chat_delete_message_Request(params) ==
    Request("DELETE", params.messageName, None,
            IF params.force THEN Some([force |-> IfTrue(params.force)]) ELSE None)

google_chat_delete_message(params) ==
    ToolResult("Message '" \o params.messageName \o "' has been deleted.",
               [deleted |-> TRUE, messageName |-> params.messageName])

google_chat_delete_space_Request(params) ==
    Request("DELETE", params.spaceName, None, None)

google_chat_delete_space(params) ==
    ToolResult("Space '" \o params.spaceName \o "' has been deleted.",
               [deleted |-> TRUE, spaceName |-> params.spaceName])

google_chat_delete_member_Request(params) ==
    Request("DELETE", params.memberName, None, None)

\* mutant: the echo names the space instead of the membership
google_chat_delete_member_EchoesSpace(params) ==
    ToolResult("Member '" \o params.memberName \o "' has been removed from the space.",
               [deleted |-> TRUE, memberName |-> "spaces/AAAA"])

google_chat_delete_member(params) ==
    ToolResult("Member '" \o params.memberName \o "' has been removed from the space.",
               [deleted |-> TRUE, memberName |-> params.memberName])

google_chat_delete_reaction_Request(params) ==
    Request("DELETE", params.reactionName, None, None)

google_chat_delete_reaction(params) ==
    ToolResult("Reaction '" \o params.reactionName \o "' has been removed.",
               [deleted |-> TRUE, reactionName |-> params.reactionName])

\* mutant: description and guidelines are taken by truthiness, as displayName is
UpdatedFields_IfTruthy(params) ==
    [displayName |-> IfSet(params.displayName),
     description |-> IfSet(params.description),
     guidelines |-> IfSet(params.guidelines)]

\* the fields update_space takes from its input: displayName by truthiness,
\* description and guidelines by !== undefined
UpdatedFields(params) ==
    [displayName |-> IfSet(params.displayName),
     description |-> params.description,
     guidelines |-> params.guidelines]

\* updateMask, in push order
UpdateMask(params) ==
    LET f == UpdatedFields(params) IN
    (IF f.displayName # None THEN <<"displayName">> ELSE <<>>)
    \o (IF f.description # None THEN <<"spaceDetails.description">> ELSE <<>>)
    \o (IF f.guidelines # None THEN <<"spaceDetails.guidelines">> ELSE <<>>)

SpaceData(params) ==
    LET f == UpdatedFields(params) IN
    [displayName |-> f.displayName,
     spaceDetails |-> IF f.description # None \/ f.guidelines # None
                      THEN Some([description |-> f.description,
                                 guidelines |-> f.guidelines])
                      ELSE None]

NothingToUpdate ==
    ErrorResult(<<"Error: At least one field must be provided to update.">>)

\* mutant: the request is sent even with an empty mask
MaskIsEmpty_Never(params) == FALSE

\* updateMask.length === 0
MaskIsEmpty(params) == Len(UpdateMask(params)) = 0

google_chat_update_space_Request(params) ==
    Request("PATCH", params.spaceName, Some(SpaceData(params)),
            Some([updateMask |-> Join(UpdateMask(params), ",")]))

google_chat_update_space(space) ==
    ToolResult("Space updated successfully!\n\n" \o formatSpace(space), space)

google_chat_list_spaces_Request(params) ==
    Request("GET", "spaces", None,
            Some([pageSize |-> params.pageSize, pageToken |-> IfSet(params.pageToken),
                  filter |-> IfSet(params.filter)]))

\* mutant: the continuation token is left out of the search query
google_chat_search_spaces_Request_NoToken(params) ==
    Request("GET", "spaces:search", None,
            Some([query |-> params.query, pageSize |-> params.pageSize,
                  pageToken |-> None]))

google_chat_search_spaces_Request(params) ==
    Request("GET", "spaces:search", None,
            Some([query |-> params.query, pageSize |-> params.pageSize,
                  pageToken |-> IfSet(params.pageToken)]))

google_chat_search_spaces(response) ==
    LET spaces == OrEmpty(response.spaces) IN
    ToolResult(formatSpacesList(spaces, HasMore(response), response.nextPageToken),
               [count |-> Len(spaces), totalSize |-> response.totalSize,
                spaces |-> spaces, hasMore |-> HasMore(response),
                nextPageToken |-> response.nextPageToken])

google_chat_list_messages_Request(params) ==
    Request("GET", params.spaceName \o "/messages", None,
            Some([pageSize |-> params.pageSize, pageToken |-> IfSet(params.pageToken),
                  filter |-> IfSet(params.filter), orderBy |-> IfSet(params.orderBy),
                  showDeleted |-> IfTrue(params.showDeleted)]))

google_chat_list_members_Request(params) ==
    Request("GET", params.spaceName \o "/members", None,
            Some([pageSize |-> params.pageSize, pageToken |-> IfSet(params.pageToken),
                  filter |-> IfSet(params.filter),
                  showGroups |-> IfTrue(params.showGroups),
                  showInvited |-> IfTrue(params.showInvited)]))

google_chat_list_reactions_Request(params) ==
    Request("GET", params.messageName \o "/reactions", None,
            Some([pageSize |-> params.pageSize, pageToken |-> IfSet(params.pageToken),
                  filter |-> IfSet(params.filter)]))

\* the inputs the schemas admit (schemas/index.ts): optional strings without
\* .min(1) may be empty, displayName and text may not
MaxPages == 2

OptionalTexts(v) == {None, Some(""), Some(v)}

NextTokens == {None, Some(""), Some("NEXT456")}

PageSizes == {1, 25, 100}

CreateMessageParams ==
    [spaceName : {"spaces/AAAA"}, text : {"hello"},
     threadKey : OptionalTexts("release-42"),
     threadName : OptionalTexts("spaces/AAAA/threads/T1"),
     messageReplyOption : {None, Some("REPLY_MESSAGE_OR_FAIL")},
     messageId : OptionalTexts("client-1")]

UpdateMessageParams ==
    [messageName : {"spaces/AAAA/messages/M1"}, text : {"fixed typo", "x"}]

DeleteMessageParams == [messageName : {"spaces/AAAA/messages/M1"}, force : BOOLEAN]

UpdateSpaceParams ==
    [spaceName : {"spaces/AAAA"}, displayName : {None, Some("Platform")},
     description : OptionalTexts("About the platform"),
     guidelines : OptionalTexts("Be kind")]

DeleteSpaceParams == [spaceName : {"spaces/AAAA", "spaces/BBBB"}]

DeleteMemberParams == [memberName : {"spaces/AAAA/members/1", "spaces/AAAA/members/2"}]

DeleteReactionParams ==
    [reactionName : {"spaces/AAAA/messages/M1/reactions/1",
                     "spaces/AAAA/messages/M1/reactions/2"}]

ListSpacesParams ==
    [pageSize : PageSizes, pageToken : PageTokens, filter : {None, Some("spaceType = SPACE")}]

SearchSpacesParams ==
    [query : {"engineering"}, pageSize : PageSizes, pageToken : PageTokens]

ListMessagesParams ==
    [spaceName : {"spaces/AAAA"}, pageSize : PageSizes, pageToken : PageTokens,
     filter : {None}, orderBy : {None, Some("createTime desc")}, showDeleted : BOOLEAN]

ListMembersParams ==
    [spaceName : {"spaces/AAAA"}, pageSize : PageSizes, pageToken : PageTokens,
     filter : {None}, showGroups : BOOLEAN, showInvited : {FALSE}]

ListReactionsParams ==
    [messageName : {"spaces/AAAA/messages/M1"}, pageSize : PageSizes,
     pageToken : PageTokens, filter : {None, Some("emoji.unicode = x")}]

DeleteTools ==
    {"google_chat_delete_space", "google_chat_delete_message",
     "google_chat_delete_member", "google_chat_delete_reaction"}

PagedTools ==
    {"google_chat_list_spaces", "google_chat_search_spaces", "google_chat_list_messages",
     "google_chat_list_members", "google_chat_list_reactions"}

RequestInputs ==
    {ToolInput("google_chat_create_message", q) : q \in CreateMessageParams}
    \cup {ToolInput("google_chat_update_message", q) : q \in UpdateMessageParams}
    \cup {ToolInput("google_chat_delete_message", q) : q \in DeleteMessageParams}
    \cup {ToolInput("google_chat_update_space", q) : q \in UpdateSpaceParams}
    \cup {ToolInput("google_chat_delete_space", q) : q \in DeleteSpaceParams}
    \cup {ToolInput("google_chat_delete_member", q) : q \in DeleteMemberParams}
    \cup {ToolInput("google_chat_delete_reaction", q) : q \in DeleteReactionParams}
    \cup {ToolInput("google_chat_list_spaces", q) : q \in ListSpacesParams}
    \cup {ToolInput("google_chat_search_spaces", q) : q \in SearchSpacesParams}
    \cup {ToolInput("google_chat_list_messages", q) : q \in ListMessagesParams}
    \cup {ToolInput("google_chat_list_members", q) : q \in ListMembersParams}
    \cup {ToolInput("google_chat_list_reactions", q) : q \in ListReactionsParams}

\* what the upstream service may answer to a tool's request
Bodies(tool) ==
    CASE tool = "google_chat_list_spaces" ->
           {[spaces |-> p, nextPageToken |-> t] :
               p \in {None, Some(<<BasicSpace>>)}, t \in NextTokens}
      [] tool = "google_chat_search_spaces" ->
           {[spaces |-> p, nextPageToken |-> t, totalSize |-> Some(7)] :
               p \in {None, Some(<<BasicSpace>>)}, t \in NextTokens}
      [] tool = "google_chat_list_messages" ->
           {[messages |-> Some(<<BasicMessage>>), nextPageToken |-> t] : t \in NextTokens}
      [] tool = "google_chat_list_members" ->
           {[memberships |-> Some(<<BasicMember>>), nextPageToken |-> t] : t \in NextTokens}
      [] tool = "google_chat_list_reactions" ->
           {[reactions |-> Some(<<Reaction("1", Some("+1"), Some("Ada"))>>),
             nextPageToken |-> t] : t \in NextTokens}
      [] tool \in {"google_chat_create_message", "google_chat_update_message"} ->
           {BasicMessage}
      [] tool = "google_chat_update_space" -> {BasicSpace}
      [] tool \in DeleteTools -> {None}

Failures == {o.error : o \in {r \in ResponseOutcomes : ~r.ok}}

\* the handler's return value after makeApiRequest resolved with `data`
Completes(tool, params, data) ==
    CASE tool = "google_chat_list_spaces" -> google_chat_list_spaces(data)
      [] tool = "google_chat_search_spaces" -> google_chat_search_spaces(data)
      [] tool = "google_chat_list_messages" -> google_chat_list_messages(data)
      [] tool = "google_chat_list_members" -> google_chat_list_members(data)
      [] tool = "google_chat_list_reactions" -> google_chat_list_reactions(data)
      [] tool = "google_chat_create_message" -> google_chat_create_message(data)
      [] tool = "google_chat_update_message" -> google_chat_update_message(data)
      [] tool = "google_chat_update_space" -> google_chat_update_space(data)
      [] tool = "google_chat_delete_space" -> google_chat_delete_space(params)
      [] tool = "google_chat_delete_message" -> google_chat_delete_message(params)
      [] tool = "google_chat_delete_member" -> google_chat_delete_member(params)
      [] tool = "google_chat_delete_reaction" -> google_chat_delete_reaction(params)

\* the request a list or search handler builds
PageRequest(tool, params) ==
    CASE tool = "google_chat_list_spaces" -> google_chat_list_spaces_Request(params)
      [] tool = "google_chat_search_spaces" -> google_chat_search_spaces_Request(params)
      [] tool = "google_chat_list_messages" -> google_chat_list_messages_Request(params)
      [] tool = "google_chat_list_members" -> google_chat_list_members_Request(params)
      [] tool = "google_chat_list_reactions" -> google_chat_list_reactions_Request(params)

InitRequest ==
    /\ ProcessNotStarted
    /\ tpIn = None
    /\ tpOut = None
    /\ errIn = None
    /\ errOut = None
    /\ toolIn \in {Some(i) : i \in RequestInputs}
    /\ toolOut = None

\* the handler of `tool` runs up to its first await, or to its early return
Invokes(tool, started) ==
    /\ toolIn # None
    /\ toolOut = None
    /\ toolIn[1].tool = tool
    /\ toolOut' = Some(started)
    /\ UNCHANGED <<procVars, tpIn, tpOut, errIn, errOut, toolIn>>

Calls(tool, request) == Invokes(tool, Dispatched(toolIn[1].input, request))

CallCreateMessage ==
    Calls("google_chat_create_message", google_chat_create_message_Request(toolIn[1].input))

CallUpdateMessage ==
    Calls("google_chat_update_message", google_chat_update_message_Request(toolIn[1].input))

CallDeleteMessage ==
    Calls("google_chat_delete_message", google_chat_delete_message_Request(toolIn[1].input))

CallUpdateSpace ==
    Invokes("google_chat_update_space",
            IF MaskIsEmpty(toolIn[1].input)
            THEN ReturnedEarly(toolIn[1].input, NothingToUpdate)
            ELSE Dispatched(toolIn[1].input,
                            google_chat_update_space_Request(toolIn[1].input)))

CallDeleteSpace ==
    Calls("google_chat_delete_space", google_chat_delete_space_Request(toolIn[1].input))

CallDeleteMember ==
    Calls("google_chat_delete_member", google_chat_delete_member_Request(toolIn[1].input))

CallDeleteReaction ==
    Calls("google_chat_delete_reaction", google_chat_delete_reaction_Request(toolIn[1].input))

CallListSpaces ==
    Calls("google_chat_list_spaces", google_chat_list_spaces_Request(toolIn[1].input))

CallSearchSpaces ==
    Calls("google_chat_search_spaces", google_chat_search_spaces_Request(toolIn[1].input))

CallListMessages ==
    Calls("google_chat_list_messages", google_chat_list_messages_Request(toolIn[1].input))

CallListMembers ==
    Calls("google_chat_list_members", google_chat_list_members_Request(toolIn[1].input))

CallListReactions ==
    Calls("google_chat_list_reactions", google_chat_list_reactions_Request(toolIn[1].input))

InFlight == toolOut # None /\ toolOut[1].pc = "inflight"

\* makeApiRequest resolves: the handler builds its result from response.data
RequestSucceeds ==
    /\ InFlight
    /\ \E data \in Bodies(toolIn[1].tool) :
          toolOut' = Some([toolOut[1] EXCEPT
                             !.pc = "done",
                             !.received = @ \o <<data>>,
                             !.result = Some(Completes(toolIn[1].tool,
                                                       toolOut[1].params, data))])
    /\ UNCHANGED <<procVars, tpIn, tpOut, errIn, errOut, toolIn>>

\* makeApiRequest rejects: the catch block classifies the error
RequestFails ==
    /\ InFlight
    /\ \E error \in Failures :
          toolOut' = Some([toolOut[1] EXCEPT
                             !.pc = "done",
                             !.result = Some(ErrorResult(handleApiError(error)))])
    /\ UNCHANGED <<procVars, tpIn, tpOut, errIn, errOut, toolIn>>

\* the caller asks for the next page: the same tool, with the nextPageToken of
\* the last result as pageToken
NextPage ==
    /\ toolOut # None
    /\ toolOut[1].pc = "done"
    /\ toolIn[1].tool \in PagedTools
    /\ Len(toolOut[1].sent) < MaxPages
    /\ ~toolOut[1].result[1].isError
    /\ toolOut[1].result[1].structuredContent.hasMore
    /\ LET params == [toolOut[1].params EXCEPT
                        !.pageToken = toolOut[1].result[1].structuredContent.nextPageToken]
       IN  toolOut' = Some([toolOut[1] EXCEPT
                              !.pc = "inflight",
                              !.params = params,
                              !.sent = @ \o <<PageRequest(toolIn[1].tool, params)>>,
                              !.result = None])
    /\ UNCHANGED <<procVars, tpIn, tpOut, errIn, errOut, toolIn>>

NextRequest ==
    \/ CallCreateMessage
    \/ CallUpdateMessage
    \/ CallDeleteMessage
    \/ CallUpdateSpace
    \/ CallDeleteSpace
    \/ CallDeleteMember
    \/ CallDeleteReaction
    \/ CallListSpaces
    \/ CallSearchSpaces
    \/ CallListMessages
    \/ CallListMembers
    \/ CallListReactions
    \/ RequestSucceeds
    \/ RequestFails
    \/ NextPage

SpecRequest == InitRequest /\ [][NextRequest]_vars

----------------------------------------------------------------------------
(* Claims about the requests                                               *)

\* the handler of one of `tools` has called makeApiRequest
Requested(tools) == toolOut # None /\ toolIn[1].tool \in tools /\ Len(toolOut[1].sent) > 0

FirstRequest == toolOut[1].sent[1]

Given(v) == v # None /\ v[1] # ""

\* C21 (as stated): for create-message the request body has a thread object
\* exactly when threadKey or threadName is supplied, holding exactly the
\* supplied keys; the query carries messageReplyOption and messageId only if
\* supplied, and there are no query parameters when neither was supplied.
C21_ThreadAndQueryFollowSupplied ==
    Requested({"google_chat_create_message"}) =>
        LET q == toolIn[1].input
            body == FirstRequest.data[1]
            query == FirstRequest.params
        IN  /\ body.thread # None <=> (q.threadKey # None \/ q.threadName # None)
            /\ body.thread # None =>
                  /\ body.thread[1].threadKey = q.threadKey
                  /\ body.thread[1].name = q.threadName
            /\ query # None =>
                  /\ query[1].messageReplyOption # None => q.messageReplyOption # None
                  /\ query[1].messageId # None => q.messageId # None
            /\ (q.messageReplyOption = None /\ q.messageId = None) => query = None

\* C21 (amended): the same with "supplied" read as "supplied and non-empty":
\* the thread object exists exactly when threadKey or threadName is non-empty
\* and holds exactly the non-empty ones, the query carries exactly the
\* non-empty ones of messageReplyOption and messageId, unchanged, and there is
\* no query at all when neither is non-empty.
C21_ThreadAndQueryFollowNonEmpty ==
    Requested({"google_chat_create_message"}) =>
        LET q == toolIn[1].input
            body == FirstRequest.data[1]
            query == FirstRequest.params
            Kept(v) == IF Given(v) THEN v ELSE None
        IN  /\ FirstRequest.method = "POST"
            /\ body.text = q.text
            /\ body.thread # None <=> (Given(q.threadKey) \/ Given(q.threadName))
            /\ body.thread # None =>
                  /\ body.thread[1].threadKey = Kept(q.threadKey)
                  /\ body.thread[1].name = Kept(q.threadName)
            /\ query # None <=> (Given(q.messageReplyOption) \/ Given(q.messageId))
            /\ query # None =>
                  /\ query[1].messageReplyOption = Kept(q.messageReplyOption)
                  /\ query[1].messageId = Kept(q.messageId)

\* C21 witness: both threadKey and threadName were supplied and the body's
\* thread object holds both, while messageReplyOption was not supplied and
\* the query carries only messageId
C21_Witness ==
    /\ Requested({"google_chat_create_message"})
    /\ Given(toolIn[1].input.threadKey)
    /\ Given(toolIn[1].input.threadName)
    /\ FirstRequest.data[1].thread =
          Some([threadKey |-> Some("release-42"), name |-> Some("spaces/AAAA/threads/T1")])
    /\ toolIn[1].input.messageReplyOption = None
    /\ FirstRequest.params = Some([messageReplyOption |-> None, messageId |-> Some("client-1")])

Finished == toolOut # None /\ toolOut[1].pc = "done"

\* the structured echo a delete tool owes its caller, and its sentence
DeleteEcho(tool, q) ==
    CASE tool = "google_chat_delete_space" -> [deleted |-> TRUE, spaceName |-> q.spaceName]
      [] tool = "google_chat_delete_message" -> [deleted |-> TRUE, messageName |-> q.messageName]
      [] tool = "google_chat_delete_member" -> [deleted |-> TRUE, memberName |-> q.memberName]
      [] tool = "google_chat_delete_reaction" -> [deleted |-> TRUE, reactionName |-> q.reactionName]

DeletedName(tool, q) ==
    CASE tool = "google_chat_delete_space" -> q.spaceName
      [] tool = "google_chat_delete_message" -> q.messageName
      [] tool = "google_chat_delete_member" -> q.memberName
      [] tool = "google_chat_delete_reaction" -> q.reactionName

DeleteSentence(tool, q) ==
    CASE tool = "google_chat_delete_space" -> "Space '" \o q.spaceName \o "' has been deleted."
      [] tool = "google_chat_delete_message" ->
           "Message '" \o q.messageName \o "' has been deleted."
      [] tool = "google_chat_delete_member" ->
           "Member '" \o q.memberName \o "' has been removed from the space."
      [] tool = "google_chat_delete_reaction" ->
           "Reaction '" \o q.reactionName \o "' has been removed."

\* C22: each delete tool sends exactly one DELETE request, for the input
\* resource name; it returns a result only once that request is settled; the
\* result is the echo {deleted: true, <name field>: <input name>} with the
\* tool's fixed sentence (no rendered entity) exactly when the DELETE
\* succeeded, and when the DELETE failed it is an error result with no
\* structured content at all.
C22_EchoOnlyAfterTheDeleteSucceeded ==
    (toolOut # None /\ toolIn[1].tool \in DeleteTools) =>
        LET tool == toolIn[1].tool
            q == toolIn[1].input
            out == toolOut[1]
        IN  /\ Len(out.sent) = 1
            /\ out.sent[1].method = "DELETE"
            /\ out.sent[1].url = DeletedName(tool, q)
            /\ out.sent[1].data = None
            /\ out.result # None <=> out.pc = "done"
            /\ out.pc = "done" =>
                  IF Len(out.received) = 1
                  THEN out.result[1] = [isError |-> FALSE, text |-> DeleteSentence(tool, q),
                                        structuredContent |-> DeleteEcho(tool, q)]
                  ELSE /\ out.received = <<>>
                       /\ out.result[1].isError
                       /\ DOMAIN out.result[1] = {"isError", "text"}

\* C22 witness: delete-member returned its echo after its DELETE succeeded
C22_Witness ==
    /\ Finished
    /\ toolIn[1].tool = "google_chat_delete_member"
    /\ Len(toolOut[1].received) = 1
    /\ toolOut[1].result[1].structuredContent =
          [deleted |-> TRUE, memberName |-> toolIn[1].input.memberName]

\* C23: for update-space, whatever subset of displayName, description and
\* guidelines is supplied (an empty description or guidelines is a supplied
\* one), the updateMask sent names exactly the supplied fields, in the order
\* displayName, spaceDetails.description, spaceDetails.guidelines, and the
\* body holds exactly those fields with the supplied values; update-message
\* always sends the mask 'text' with the new text as its body.
C23_MaskNamesExactlyTheSuppliedFields ==
    /\ Requested({"google_chat_update_space"}) =>
          LET q == toolIn[1].input
              body == FirstRequest.data[1]
              mask == FirstRequest.params[1].updateMask
              Named(field) == Includes("," \o mask \o ",", "," \o field \o ",")
              details == IF body.spaceDetails = None
                         THEN [description |-> None, guidelines |-> None]
                         ELSE body.spaceDetails[1]
          IN  /\ FirstRequest.method = "PATCH"
              /\ FirstRequest.url = q.spaceName
              /\ Named("displayName") <=> q.displayName # None
              /\ Named("spaceDetails.description") <=> q.description # None
              /\ Named("spaceDetails.guidelines") <=> q.guidelines # None
              /\ Len(mask) + 1 =
                    (IF q.displayName # None THEN Len("displayName") + 1 ELSE 0)
                    + (IF q.description # None THEN Len("spaceDetails.description") + 1 ELSE 0)
                    + (IF q.guidelines # None THEN Len("spaceDetails.guidelines") + 1 ELSE 0)
              /\ body.displayName = q.displayName
              /\ details.description = q.description
              /\ details.guidelines = q.guidelines
              /\ body.spaceDetails # None <=> (q.description # None \/ q.guidelines # None)
    /\ Requested({"google_chat_update_message"}) =>
          /\ FirstRequest.method = "PATCH"
          /\ FirstRequest.params = Some([updateMask |-> "text"])
          /\ FirstRequest.data = Some([text |-> toolIn[1].input.text])

\* C23 witness: update-space was called with an empty description and
\* guidelines only, and the mask names both
C23_Witness ==
    /\ Requested({"google_chat_update_space"})
    /\ toolIn[1].input.displayName = None
    /\ toolIn[1].input.description = Some("")
    /\ toolIn[1].input.guidelines = Some("Be kind")
    /\ FirstRequest.params[1].updateMask = "spaceDetails.description,spaceDetails.guidelines"

NothingSupplied ==
    /\ toolIn # None
    /\ toolIn[1].tool = "google_chat_update_space"
    /\ toolIn[1].input.displayName = None
    /\ toolIn[1].input.description = None
    /\ toolIn[1].input.guidelines = None

\* C28: when update-space is called with none of displayName, description
\* and guidelines, the handler returns an isError result whose text says that
\* at least one field must be provided, and it never calls makeApiRequest: no
\* request is handed over (so no token is acquired and nothing is sent) and
\* nothing is received, in this state and in every later one.
C28_NothingToUpdateSendsNothing ==
    (NothingSupplied /\ toolOut # None) =>
        /\ toolOut[1].pc = "done"
        /\ toolOut[1].sent = <<>>
        /\ toolOut[1].received = <<>>
        /\ toolOut[1].result =
              Some([isError |-> TRUE,
                    text |-> <<"Error: At least one field must be provided to update.">>])
        /\ ~ENABLED RequestSucceeds
        /\ ~ENABLED RequestFails
        /\ ~ENABLED NextPage

\* C28 witness: update-space with no field returned its error
C28_Witness == NothingSupplied /\ Finished /\ toolOut[1].result[1].isError

\* C26: every request of a list or search operation carries the caller's
\* pageSize; the first carries pageToken exactly when the caller supplied a
\* non-empty one, unchanged, and the request for a next page carries exactly
\* the nextPageToken that the upstream service returned with the page before.
C26_PageTokenReachesUpstreamVerbatim ==
    Requested(PagedTools) =>
        LET q == toolIn[1].input
            out == toolOut[1]
            query(i) == out.sent[i].params[1]
        IN  /\ \A i \in 1..Len(out.sent) :
                  /\ out.sent[i].method = "GET"
                  /\ query(i).pageSize = q.pageSize
            /\ query(1).pageToken = (IF Given(q.pageToken) THEN q.pageToken ELSE None)
            /\ \A i \in 2..Len(out.sent) :
                  /\ Given(out.received[i - 1].nextPageToken)
                  /\ query(i).pageToken = out.received[i - 1].nextPageToken

\* C26 witness: a search was continued with the token of its first page
C26_Witness ==
    /\ Requested({"google_chat_search_spaces"})
    /\ Len(toolOut[1].sent) = 2
    /\ toolOut[1].received[1].nextPageToken = Some("NEXT456")
    /\ toolOut[1].sent[2].params[1].pageToken = Some("NEXT456")
    /\ toolOut[1].sent[1].params[1].pageToken = Some("TOK123")

----------------------------------------------------------------------------
(* Claims about startup and the client's installation                      *)

StartupFailed == entry \in {"stdio", "http"} /\ initError # None

RemediationOptions ==
    {"GOOGLE_APPLICATION_CREDENTIALS", "GOOGLE_SERVICE_ACCOUNT_JSON", "GOOGLE_OAUTH_TOKEN"}

\* C24: in stdio and in HTTP mode, a process whose initialization failed at
\* startup has printed the error's message and named the three remediation
\* options, has exited with a non-zero status, and has served no tool call
\* (it never reached the state in which handlers run).
C24_StartupFailureReportsOptionsAndExits ==
    StartupFailed =>
        /\ proc = "exited"
        /\ exitCode > 0
        /\ \A c \in CallIds : calls[c] = IdleCall
        /\ sent = {}
        /\ Range(initError[1].message) \subseteq Range(stderr)
        /\ RemediationOptions \subseteq Range(stderr)

\* C24 witness: an HTTP-mode process exited at startup over an inline
\* payload that is not JSON
C24_Witness ==
    /\ StartupFailed
    /\ entry = "http"
    /\ initError = Some(InvalidJsonError)
    /\ proc = "exited"
    /\ exitCode = 1

InInterceptor(c) == calls[c].pc \in {"interceptor", "getClient", "exchange", "haveToken"}

\* C30: in every reachable state the HTTP client is installed only if an auth
\* strategy is installed; a step on which initialization fails leaves both
\* uninstalled, a step that installs the HTTP client has the auth client
\* installed with it, and no call is in the request interceptor, or has a
\* request on the wire, while no strategy is resolved.
C30_HttpClientOnlyWithAuthClient ==
    /\ [](/\ apiClient # NullApi => authClient # NullAuth
          /\ \A c \in CallIds :
                (InInterceptor(c) \/ calls[c].pc = "inflight") => authClient # NullAuth
          /\ sent # {} => authClient # NullAuth)
    /\ [][/\ (nInit' > nInit /\ initError' # None) =>
                (apiClient' = NullApi /\ authClient' = NullAuth)
          /\ (apiClient = NullApi /\ apiClient' # NullApi) => authClient' # NullAuth]_vars

\* C30 witness: a call is in the interceptor of a client that its own
\* makeApiRequest initialized, with the strategy resolved
C30_Witness ==
    /\ entry = "module"
    /\ apiClient # NullApi
    /\ authClient # NullAuth
    /\ \E c \in CallIds : InInterceptor(c)

\* the messages of the token provider's failures: getAccessToken's own and
\* those of the identity library
ProviderMessages ==
    {<<"OAuth2 token expired or invalid">>, <<"Failed to obtain access token">>}
    \cup {o.error.message : o \in {g \in GetClientOutcomes : g.threw}}
    \cup {o.error.message : o \in {x \in ExchangeOutcomes : x.threw}}

AcquiringToken(c) == calls[c].pc \in {"interceptor", "getClient", "exchange"}

\* C29: a call that fails while its token is being acquired ends on that very
\* step without a request: nothing is sent for it then or later, and its
\* result is an error whose text is "Error: Unexpected error - " followed by
\* the token provider's message, never the 401 text.  The same text results
\* from the OAuth strategy's own failure on an absent or empty token.
C29_TokenFailureSendsNothing ==
    /\ [](\A c \in CallIds :
            (calls[c].pc = "done" /\ calls[c].acq = 0) =>
                /\ calls[c].nSent = 0
                /\ \A r \in sent : r.call # c)
    /\ [][\A c \in CallIds :
            (AcquiringToken(c) /\ calls'[c].pc = "done") =>
                /\ sent' = sent
                /\ calls'[c].acq = 0
                /\ calls'[c].nSent = 0
                /\ calls'[c].result.isError
                /\ calls'[c].result.text[1] = "Error: Unexpected error - "
                /\ SubSeq(calls'[c].result.text, 2, Len(calls'[c].result.text))
                      \in ProviderMessages
                /\ calls'[c].result.text # StatusText(401, "")]_vars
    /\ [](\A t \in {None, Some("")} :
            LET r == getAccessToken(OAuth2Client(1, t), GetClientOk, ExchangeOk(None))
            IN  /\ r.threw
                /\ handleApiError(r.error) =
                      <<"Error: Unexpected error - ", "OAuth2 token expired or invalid">>)

\* C29 witness: the exchange yielded no token, the call is done with the
\* provider's message and no request was sent for it
C29_Witness ==
    \E c \in CallIds :
        /\ calls[c].pc = "done"
        /\ calls[c].client # 0
        /\ calls[c].nSent = 0
        /\ calls[c].result.text =
              <<"Error: Unexpected error - ", "Failed to obtain access token">>
        /\ \A r \in sent : r.call # c

----------------------------------------------------------------------------
(* Claims about the reaction groups and the JSON branch (SpecRender)       *)

\* C27: the text of a non-empty reaction list is its header, an empty line
\* and then exactly one line per distinct emoji, the line of an emoji standing
\* at the rank of its first occurrence in the collection and reading
\* "- <emoji> (<n>): <names>", with the names of the reactions of that emoji in
\* collection order and n their number; the numbers of all lines add up to
\* the size of the collection.  (The emoji of a reaction is its unicode, else
\* its custom uid, else "?"; the name is the display name, else the user's
\* resource name, else "Unknown".)
C27_OneLinePerEmojiInFirstOccurrenceOrder ==
    (Returned({"google_chat_list_reactions"}) /\ Len(UpstreamPage) > 0) =>
        LET reactions == UpstreamPage
            at == 1..Len(reactions)
            emoji(i) == ReactionEmoji(reactions[i])
            emojis == {emoji(i) : i \in at}
            firstAt(e) == CHOOSE i \in at : emoji(i) = e /\ \A j \in 1..(i - 1) : emoji(j) # e
            rank(e) == Cardinality({d \in emojis : firstAt(d) < firstAt(e)}) + 1
            ranked == [n \in 1..Cardinality(emojis) |->
                          CHOOSE e \in emojis : rank(e) = n]
            of(e) == SelectSeq(reactions, LAMBDA r : ReactionEmoji(r) = e)
            names(e) == [i \in 1..Len(of(e)) |-> ReactionUser(of(e)[i])]
            line(e) == "- " \o e \o " (" \o ToString(Len(of(e))) \o "): "
                       \o Join(names(e), ", ")
            groups == Join(<<"# Reactions (" \o ToString(Len(reactions)) \o " results)", "">>
                           \o [n \in 1..Len(ranked) |-> line(ranked[n])], "\n")
            rest == SubSeq(toolOut[1].text, Len(groups) + 1, Len(toolOut[1].text))
            RECURSIVE Sum(_)
            Sum(n) == IF n = 0 THEN 0 ELSE Len(of(ranked[n])) + Sum(n - 1)
        IN  /\ Len(toolOut[1].text) >= Len(groups)
            /\ SubSeq(toolOut[1].text, 1, Len(groups)) = groups
            /\ ~Includes(rest, "\n- ")
            /\ Sum(Len(ranked)) = Len(reactions)

\* C27 witness: five reactions of two emojis, interleaved, gave two lines in
\* the order of first occurrence
C27_Witness ==
    /\ Returned({"google_chat_list_reactions"})
    /\ Len(UpstreamPage) = 5
    /\ Includes(toolOut[1].text, "\n- tada (3): Ada, Cy, Dee\n- +1 (2): Bob, Eve")

JsonReturned(tools) ==
    /\ toolOut # None
    /\ toolIn[1].tool \in tools
    /\ toolIn[1].response_format = "json"

\* C25: in JSON mode the text of every list renderer is the two-space
\* indented serialization of an object with count, the collection under its
\* key, hasMore and, when the upstream sent one, nextPageToken, in this order:
\* count is the number of elements of the page, every element is serialized in
\* full, hasMore is true exactly when the token is present and non-empty, and
\* the text is this serialization for the empty page and for a page whose
\* serialization is longer than the character limit alike (no placeholder, no
\* cut, no notice).
C25_JsonListIsTheWholeSerialization ==
    JsonReturned(ListTools) =>
        LET tool == toolIn[1].tool
            page == UpstreamPage
            token == toolIn[1].input.nextPageToken
            text == toolOut[1].text
            key == CASE tool = "google_chat_list_spaces" -> "spaces"
                     [] tool = "google_chat_list_messages" -> "messages"
                     [] tool = "google_chat_list_members" -> "memberships"
                     [] tool = "google_chat_list_reactions" -> "reactions"
            element(i) ==
                   CASE tool = "google_chat_list_spaces" -> SpaceJson(page[i])
                     [] tool = "google_chat_list_messages" -> MessageJson(page[i])
                     [] tool = "google_chat_list_members" -> MemberJson(page[i])
                     [] tool = "google_chat_list_reactions" -> ReactionJson(page[i])
            items == [i \in 1..Len(page) |-> "    " \o Stringify(element(i), 2)]
            whole == "{\n  \"count\": " \o ToString(Len(page))
                     \o ",\n  \"" \o key \o "\": "
                     \o (IF Len(page) = 0 THEN "[]"
                         ELSE "[\n" \o Join(items, ",\n") \o "\n  ]")
                     \o ",\n  \"hasMore\": " \o (IF Given(token) THEN "true" ELSE "false")
                     \o (IF token = None THEN ""
                         ELSE ",\n  \"nextPageToken\": \"" \o token[1] \o "\"")
                     \o "\n}"
        IN  /\ text = whole
            /\ ~EndsWith(text, TruncationNotice)
            /\ toolOut[1].structuredContent.count = Len(page)
            /\ toolOut[1].structuredContent.hasMore = Given(token)

\* C25 witness: a page of spaces whose serialization is longer than the
\* character limit was returned whole
C25_Witness ==
    /\ JsonReturned({"google_chat_list_spaces"})
    /\ Len(UpstreamPage) = BigPageSize
    /\ Len(toolOut[1].text) > CHARACTER_LIMIT
    /\ EndsWith(toolOut[1].text, "\n  ],\n  \"hasMore\": true,\n  \"nextPageToken\": \"TOK123\"\n}")

====
